---- MODULE Spec2Model ----
(***************************************************************************)
(* Model of the specification differ of pkg/versioning (diff.go), of the   *)
(* migration guide and changelog generated from its Diff (breaking.go,     *)
(* changelog.go), and of the Docs instance of openapi.go.                  *)
(*                                                                         *)
(* A decoded OpenAPI document is a Go map[string]interface{}.  A Go value  *)
(* is modelled as a record [t, v]: t is its dynamic type, v its payload.   *)
(* Go strings that end up inside descriptions are sequences of one-letter   *)
(* strings, so that fmt.Sprintf is concatenation and s[:n] is SubSeq.      *)
(* The keys the code looks up ("paths", "requestBody", ...) and the media   *)
(* type names are plain strings.                                           *)
(*                                                                         *)
(* Go leaves the iteration order of a map unspecified.  Every operator     *)
(* that ranges over a map therefore yields the SET of results that some    *)
(* iteration order produces, and the Compare action picks one of them.     *)
(***************************************************************************)
EXTENDS Naturals, Sequences, FiniteSets, TLC

VARIABLES oldSpec, newSpec, diff, called, reverse,
          guide, markdown, entry, generated,
          files, reads, result,
          endpoints, openapi, mu, heap, pc, frame, history

compareVars == <<oldSpec, newSpec, diff, called, reverse>>
reportVars == <<guide, markdown, entry, generated>>
fileVars == <<files, reads, result>>
docsVars == <<endpoints, openapi, mu, heap, pc, frame, history>>
vars == <<compareVars, reportVars, fileVars, docsVars>>

----------------------------------------------------------------------------
(* Go values *)

Nil == [t |-> "nil", v |-> <<>>]
Str(s) == [t |-> "string", v |-> s]
Bool(b) == [t |-> "bool", v |-> b]
Num == [t |-> "number", v |-> <<>>]
Map(f) == [t |-> "map", v |-> f]
NilMap == [t |-> "nilmap", v |-> <<>>]
List(s) == [t |-> "list", v |-> s]
Strings(s) == [t |-> "strings", v |-> s]

\* x.(map[string]interface{}) succeeds (a typed nil map included)
IsMap(x) == x.t \in {"map", "nilmap"}
\* m == nil, for m of type map[string]interface{}
IsNilMap(m) == m.t = "nilmap"
\* m[k], for m of type map[string]interface{}
Index(m, k) == IF k \in DOMAIN m.v THEN m.v[k] ELSE Nil

----------------------------------------------------------------------------
(* Sequences *)

RECURSIVE Flatten(_)
Flatten(ss) == IF ss = <<>> THEN <<>> ELSE Head(ss) \o Flatten(Tail(ss))

\* the orders in which a range statement may visit the key set S
RECURSIVE Perms(_)
Perms(S) ==
  IF S = {} THEN {<<>>}
  ELSE UNION {{<<x>> \o p : p \in Perms(S \ {x})} : x \in S}

\* the concatenations that take one sequence from each set of ss, in order
RECURSIVE Chain(_)
Chain(ss) ==
  IF ss = <<>> THEN {<<>>}
  ELSE {h \o r : h \in Head(ss), r \in Chain(Tail(ss))}

----------------------------------------------------------------------------
(* String literals of diff.go *)

ChangeAdded == "added"
ChangeRemoved == "removed"
ChangeModified == "modified"

Unknown == <<"u", "n", "k", "n", "o", "w", "n">>
NewEndpointPrefix == <<"N", "e", "w", " ", "e", "n", "d", "p", "o", "i", "n", "t", ":", " ">>
RemovedEndpointPrefix == <<"R", "e", "m", "o", "v", "e", "d", " ", "e", "n", "d", "p", "o", "i", "n", "t", ":", " ">>
EndpointRemoved == <<"E", "n", "d", "p", "o", "i", "n", "t", " ", "r", "e", "m", "o", "v", "e", "d">>
RequestBodyRemoved == <<"R", "e", "q", "u", "e", "s", "t", " ", "b", "o", "d", "y", " ", "r", "e", "m", "o", "v", "e", "d">>
RequiredBodyAdded == <<"R", "e", "q", "u", "i", "r", "e", "d", " ", "r", "e", "q", "u", "e", "s", "t", " ", "b", "o", "d", "y", " ", "a", "d", "d", "e", "d">>
NewRequiredField == <<"N", "e", "w", " ", "r", "e", "q", "u", "i", "r", "e", "d", " ", "f", "i", "e", "l", "d">>
ResponseCode == <<"R", "e", "s", "p", "o", "n", "s", "e", " ", "c", "o", "d", "e">>
Parameter == <<"P", "a", "r", "a", "m", "e", "t", "e", "r">>
NewRequiredParameter == <<"N", "e", "w", " ", "r", "e", "q", "u", "i", "r", "e", "d", " ", "p", "a", "r", "a", "m", "e", "t", "e", "r">>
RemovedSuffix == <<" ", "r", "e", "m", "o", "v", "e", "d">>

\* fmt.Sprintf of the five description formats
NewEndpointDesc(method, path) == NewEndpointPrefix \o method \o <<" ">> \o path
RemovedEndpointDesc(method, path) == RemovedEndpointPrefix \o method \o <<" ">> \o path
NewRequiredFieldDesc(field) == NewRequiredField \o <<":", " ">> \o field
ResponseCodeRemovedDesc(code) == ResponseCode \o <<" ">> \o code \o RemovedSuffix
ParameterRemovedDesc(name) == Parameter \o <<" ", "'">> \o name \o <<"'">> \o RemovedSuffix
NewRequiredParameterDesc(name) == NewRequiredParameter \o <<":", " ">> \o name

----------------------------------------------------------------------------
(* Helper functions of diff.go *)

getVersion(spec) ==
  LET info == Index(spec, "info")
      version == Index(info, "version")
  IN IF IsMap(info) /\ version.t = "string" THEN version.v ELSE Unknown

\* getPaths keeping a method entry that is no map as an empty operation
getPathsKeepsEntries(spec) ==
  LET paths == Index(spec, "paths")
      methodsOf(methods) ==
        IF IsMap(methods)
        THEN [m \in DOMAIN methods.v |->
                IF IsMap(methods.v[m]) THEN methods.v[m] ELSE Map(<<>>)]
        ELSE <<>>
  IN IF IsMap(paths)
     THEN [p \in DOMAIN paths.v |-> methodsOf(paths.v[p])]
     ELSE <<>>

\* path -> method -> operation; only entries that are maps are kept
getPaths(spec) ==
  LET paths == Index(spec, "paths")
      methodsOf(methods) ==
        IF IsMap(methods)
        THEN [m \in {k \in DOMAIN methods.v : IsMap(methods.v[k])} |-> methods.v[m]]
        ELSE <<>>
  IN IF IsMap(paths)
     THEN [p \in DOMAIN paths.v |-> methodsOf(paths.v[p])]
     ELSE <<>>

getRequestBody(op) ==
  LET body == Index(op, "requestBody")
  IN IF IsMap(body) THEN body ELSE NilMap

\* the required names one media type contributes
mediaTypeRequired(mediaType) ==
  LET schema == Index(mediaType, "schema")
      req == Index(schema, "required")
      IsString(r) == r.t = "string"
      Name(r) == r.v
  IN IF IsMap(mediaType) /\ IsMap(schema) /\ req.t = "list"
     THEN LET names == SelectSeq(req.v, IsString)
          IN [i \in 1..Len(names) |-> Name(names[i])]
     ELSE <<>>

\* one sequence for each order in which the content map may be ranged over
getRequiredFields(op) ==
  LET body == getRequestBody(op)
      content == Index(body, "content")
      OfKey(k) == mediaTypeRequired(content.v[k])
  IN IF IsNilMap(body) \/ ~IsMap(content) THEN {<<>>}
     ELSE {Flatten([i \in 1..Len(order) |-> OfKey(order[i])]) :
             order \in Perms(DOMAIN content.v)}

\* getResponseCodes returning the codes of the first response only
getResponseCodesFirst(op) ==
  LET responses == Index(op, "responses")
  IN IF IsMap(responses)
     THEN {SubSeq(order, 1, 1) : order \in Perms(DOMAIN responses.v)}
     ELSE {<<>>}

\* one sequence for each order in which the responses map may be ranged over
getResponseCodes(op) ==
  LET responses == Index(op, "responses")
  IN IF IsMap(responses) THEN Perms(DOMAIN responses.v) ELSE {<<>>}

\* name -> parameter; a later entry of the array replaces an earlier one
getParameters(op) ==
  LET params == Index(op, "parameters")
      Named(i) == IsMap(params.v[i]) /\ Index(params.v[i], "name").t = "string"
      NameAt(i) == Index(params.v[i], "name").v
      idx == IF params.t = "list" THEN {i \in 1..Len(params.v) : Named(i)} ELSE {}
      Last(n) == CHOOSE i \in idx : NameAt(i) = n /\ \A j \in idx : NameAt(j) = n => j <= i
  IN [n \in {NameAt(i) : i \in idx} |-> params.v[Last(n)]]

\* isParamRequired taking a parameter without "required" as required
isParamRequiredByDefault(param) ==
  LET required == Index(param, "required")
  IN IF required.t = "bool" THEN required.v ELSE TRUE

isParamRequired(param) ==
  LET required == Index(param, "required")
  IN IF required.t = "bool" THEN required.v ELSE FALSE

contains(slice, item) == \E i \in 1..Len(slice) : slice[i] = item

\* s[:n]; taking it when len(s) < n is a run-time panic
InRange(s, n) == n <= Len(s)
Slice(s, n) == SubSeq(s, 1, n)

SliceOutOfRange == "panic: runtime error: slice bounds out of range"

\* getMigrationGuide comparing the whole description with each phrase
getMigrationGuideWholeDescription(change) ==
  LET d == change.Description
  IN IF d = RequestBodyRemoved THEN "Remove request body from client calls"
     ELSE IF d = RequiredBodyAdded THEN "Add required request body to client calls"
     ELSE IF contains(<<NewRequiredField>>, d)
       THEN "Add the new required field to request payload"
     ELSE IF contains(<<ResponseCode>>, d)
       THEN "Update client to handle the removed response code"
     ELSE IF contains(<<Parameter>>, d)
       THEN "Update client to remove usage of the deleted parameter"
     ELSE IF contains(<<NewRequiredParameter>>, d)
       THEN "Add the new required parameter to client calls"
     ELSE "Review the change and update client code accordingly"

\* getMigrationGuide trying the longest prefix first
getMigrationGuideLongestFirst(change) ==
  LET d == change.Description
  IN IF d = RequestBodyRemoved THEN "Remove request body from client calls"
     ELSE IF d = RequiredBodyAdded THEN "Add required request body to client calls"
     ELSE IF ~InRange(d, 21) THEN SliceOutOfRange
     ELSE IF contains(<<NewRequiredParameter>>, Slice(d, 21))
       THEN "Add the new required parameter to client calls"
     ELSE IF contains(<<NewRequiredField>>, Slice(d, 18))
       THEN "Add the new required field to request payload"
     ELSE IF contains(<<ResponseCode>>, Slice(d, 13))
       THEN "Update client to handle the removed response code"
     ELSE IF contains(<<Parameter>>, Slice(d, 9))
       THEN "Update client to remove usage of the deleted parameter"
     ELSE "Review the change and update client code accordingly"

\* the switch tries its cases in order; a case is evaluated only when the
\* ones before it did not match
getMigrationGuide(change) ==
  LET d == change.Description
  IN IF d = RequestBodyRemoved THEN "Remove request body from client calls"
     ELSE IF d = RequiredBodyAdded THEN "Add required request body to client calls"
     ELSE IF ~InRange(d, 18) THEN SliceOutOfRange
     ELSE IF contains(<<NewRequiredField>>, Slice(d, 18))
       THEN "Add the new required field to request payload"
     ELSE IF contains(<<ResponseCode>>, Slice(d, 13))
       THEN "Update client to handle the removed response code"
     ELSE IF contains(<<Parameter>>, Slice(d, 9))
       THEN "Update client to remove usage of the deleted parameter"
     ELSE IF ~InRange(d, 21) THEN SliceOutOfRange
     ELSE IF contains(<<NewRequiredParameter>>, Slice(d, 21))
       THEN "Add the new required parameter to client calls"
     ELSE "Review the change and update client code accordingly"

----------------------------------------------------------------------------
(* Differ.compareOperations: the change lists it may return, one for each  *)
(* combination of iteration orders of the maps it ranges over              *)

\* compareOperations reporting an added request body whether or not it is
\* required
compareOperationsAnyBody(path, method, oldOp, newOp) ==
  LET Modified(desc) ==
        [Type |-> ChangeModified, Path |-> path, Method |-> method,
         Description |-> desc, IsBreaking |-> TRUE]
      oldBody == getRequestBody(oldOp)
      newBody == getRequestBody(newOp)
      isRequired == Index(newBody, "required")
      bodyChanges ==
        IF ~IsNilMap(oldBody) /\ IsNilMap(newBody)
        THEN <<Modified(RequestBodyRemoved)>>
        ELSE IF IsNilMap(oldBody) /\ ~IsNilMap(newBody)
        THEN <<Modified(RequiredBodyAdded)>>
        ELSE <<>>
      FieldChange(field) == Modified(NewRequiredFieldDesc(field))
      fieldChanges(oldRequired, newRequired) ==
        LET IsNew(field) == ~contains(oldRequired, field)
            added == SelectSeq(newRequired, IsNew)
        IN [i \in 1..Len(added) |-> FieldChange(added[i])]
      CodeChange(code) == Modified(ResponseCodeRemovedDesc(code))
      codeChanges(oldResponses, newResponses) ==
        LET IsGone(code) == ~contains(newResponses, code)
            gone == SelectSeq(oldResponses, IsGone)
        IN [i \in 1..Len(gone) |-> CodeChange(gone[i])]
      oldParams == getParameters(oldOp)
      newParams == getParameters(newOp)
      RemovedParam(name) == Modified(ParameterRemovedDesc(name))
      removedParams(order) ==
        LET IsGone(name) == name \notin DOMAIN newParams
            gone == SelectSeq(order, IsGone)
        IN [i \in 1..Len(gone) |-> RemovedParam(gone[i])]
      RequiredParam(name) == Modified(NewRequiredParameterDesc(name))
      requiredParams(order) ==
        LET IsNew(name) == name \notin DOMAIN oldParams /\ isParamRequired(newParams[name])
            added == SelectSeq(order, IsNew)
        IN [i \in 1..Len(added) |-> RequiredParam(added[i])]
  IN {bodyChanges \o fieldChanges(oldRequired, newRequired)
        \o codeChanges(oldResponses, newResponses)
        \o removedParams(oldOrder) \o requiredParams(newOrder) :
        oldRequired \in getRequiredFields(oldOp),
        newRequired \in getRequiredFields(newOp),
        oldResponses \in getResponseCodes(oldOp),
        newResponses \in getResponseCodes(newOp),
        oldOrder \in Perms(DOMAIN oldParams),
        newOrder \in Perms(DOMAIN newParams)}

compareOperations(path, method, oldOp, newOp) ==
  LET Modified(desc) ==
        [Type |-> ChangeModified, Path |-> path, Method |-> method,
         Description |-> desc, IsBreaking |-> TRUE]
      oldBody == getRequestBody(oldOp)
      newBody == getRequestBody(newOp)
      isRequired == Index(newBody, "required")
      bodyChanges ==
        IF ~IsNilMap(oldBody) /\ IsNilMap(newBody)
        THEN <<Modified(RequestBodyRemoved)>>
        ELSE IF IsNilMap(oldBody) /\ ~IsNilMap(newBody)
                /\ isRequired.t = "bool" /\ isRequired.v
        THEN <<Modified(RequiredBodyAdded)>>
        ELSE <<>>
      FieldChange(field) == Modified(NewRequiredFieldDesc(field))
      fieldChanges(oldRequired, newRequired) ==
        LET IsNew(field) == ~contains(oldRequired, field)
            added == SelectSeq(newRequired, IsNew)
        IN [i \in 1..Len(added) |-> FieldChange(added[i])]
      CodeChange(code) == Modified(ResponseCodeRemovedDesc(code))
      codeChanges(oldResponses, newResponses) ==
        LET IsGone(code) == ~contains(newResponses, code)
            gone == SelectSeq(oldResponses, IsGone)
        IN [i \in 1..Len(gone) |-> CodeChange(gone[i])]
      oldParams == getParameters(oldOp)
      newParams == getParameters(newOp)
      RemovedParam(name) == Modified(ParameterRemovedDesc(name))
      removedParams(order) ==
        LET IsGone(name) == name \notin DOMAIN newParams
            gone == SelectSeq(order, IsGone)
        IN [i \in 1..Len(gone) |-> RemovedParam(gone[i])]
      RequiredParam(name) == Modified(NewRequiredParameterDesc(name))
      requiredParams(order) ==
        LET IsNew(name) == name \notin DOMAIN oldParams /\ isParamRequired(newParams[name])
            added == SelectSeq(order, IsNew)
        IN [i \in 1..Len(added) |-> RequiredParam(added[i])]
  IN {bodyChanges \o fieldChanges(oldRequired, newRequired)
        \o codeChanges(oldResponses, newResponses)
        \o removedParams(oldOrder) \o requiredParams(newOrder) :
        oldRequired \in getRequiredFields(oldOp),
        newRequired \in getRequiredFields(newOp),
        oldResponses \in getResponseCodes(oldOp),
        newResponses \in getResponseCodes(newOp),
        oldOrder \in Perms(DOMAIN oldParams),
        newOrder \in Perms(DOMAIN newParams)}

----------------------------------------------------------------------------
(* Differ.Compare *)

\* the orders in which two nested range statements may visit the
\* path+method pairs of paths
Visits(paths) ==
  LET OfPath(p) == {[i \in 1..Len(order) |-> <<p, order[i]>>] :
                      order \in Perms(DOMAIN paths[p])}
  IN UNION {Chain([i \in 1..Len(order) |-> OfPath(order[i])]) :
              order \in Perms(DOMAIN paths)}

\* m[path][method] == nil: no such path, no such method, or a nil operation
NoOperation(paths, path, method) ==
  \/ path \notin DOMAIN paths
  \/ method \notin DOMAIN paths[path]
  \/ IsNilMap(paths[path][method])

\* addedStep marking the Change as breaking
addedStepBreaking(d, oldPaths, path, method) ==
  IF NoOperation(oldPaths, path, method)
  THEN [d EXCEPT
          !.Changes = Append(@, [Type |-> ChangeAdded, Path |-> path, Method |-> method,
                                 Description |-> NewEndpointDesc(method, path),
                                 IsBreaking |-> TRUE]),
          !.Summary.AddedEndpoints = @ + 1]
  ELSE d

\* the body of the loop that finds added endpoints
addedStep(d, oldPaths, path, method) ==
  IF NoOperation(oldPaths, path, method)
  THEN [d EXCEPT
          !.Changes = Append(@, [Type |-> ChangeAdded, Path |-> path, Method |-> method,
                                 Description |-> NewEndpointDesc(method, path),
                                 IsBreaking |-> FALSE]),
          !.Summary.AddedEndpoints = @ + 1]
  ELSE d

\* removedStep with the BreakingChange put in front of the list
removedStepPrepend(d, newPaths, path, method) ==
  IF NoOperation(newPaths, path, method)
  THEN [d EXCEPT
          !.Changes = Append(@, [Type |-> ChangeRemoved, Path |-> path, Method |-> method,
                                 Description |-> RemovedEndpointDesc(method, path),
                                 IsBreaking |-> TRUE]),
          !.Breaking = <<[Path |-> path, Method |-> method,
                          Reason |-> EndpointRemoved,
                          Migration |-> "Update client code to use alternative endpoint or remove usage"]>> \o @,
          !.Summary.RemovedEndpoints = @ + 1,
          !.Summary.BreakingChanges = @ + 1]
  ELSE d

\* removedStep testing for the method key only, not for a nil operation
removedStepMissingKey(d, newPaths, path, method) ==
  IF path \notin DOMAIN newPaths \/ method \notin DOMAIN newPaths[path]
  THEN [d EXCEPT
          !.Changes = Append(@, [Type |-> ChangeRemoved, Path |-> path, Method |-> method,
                                 Description |-> RemovedEndpointDesc(method, path),
                                 IsBreaking |-> TRUE]),
          !.Breaking = Append(@, [Path |-> path, Method |-> method,
                                  Reason |-> EndpointRemoved,
                                  Migration |-> "Update client code to use alternative endpoint or remove usage"]),
          !.Summary.RemovedEndpoints = @ + 1,
          !.Summary.BreakingChanges = @ + 1]
  ELSE d

\* the body of the loop that finds removed endpoints
removedStep(d, newPaths, path, method) ==
  IF NoOperation(newPaths, path, method)
  THEN [d EXCEPT
          !.Changes = Append(@, [Type |-> ChangeRemoved, Path |-> path, Method |-> method,
                                 Description |-> RemovedEndpointDesc(method, path),
                                 IsBreaking |-> TRUE]),
          !.Breaking = Append(@, [Path |-> path, Method |-> method,
                                  Reason |-> EndpointRemoved,
                                  Migration |-> "Update client code to use alternative endpoint or remove usage"]),
          !.Summary.RemovedEndpoints = @ + 1,
          !.Summary.BreakingChanges = @ + 1]
  ELSE d

\* modifiedStep counting one breaking change for an operation, however many
\* of its changes are breaking
modifiedStepOncePerOperation(d, path, method, changes) ==
  LET breaking == SelectSeq(changes, LAMBDA c : c.IsBreaking)
      ToBreaking(change) ==
        [Path |-> path, Method |-> method, Reason |-> change.Description,
         Migration |-> getMigrationGuide(change)]
  IN [d EXCEPT
        !.Changes = @ \o changes,
        !.Breaking = @ \o [i \in 1..Len(breaking) |-> ToBreaking(breaking[i])],
        !.Summary.BreakingChanges = IF Len(breaking) > 0 THEN @ + 1 ELSE @,
        !.Summary.ModifiedEndpoints = IF Len(changes) > 0 THEN @ + 1 ELSE @]

\* modifiedStep giving every BreakingChange the reason of a removed endpoint
modifiedStepFixedReason(d, path, method, changes) ==
  LET breaking == SelectSeq(changes, LAMBDA c : c.IsBreaking)
      ToBreaking(change) ==
        [Path |-> path, Method |-> method, Reason |-> EndpointRemoved,
         Migration |-> getMigrationGuide(change)]
  IN [d EXCEPT
        !.Changes = @ \o changes,
        !.Breaking = @ \o [i \in 1..Len(breaking) |-> ToBreaking(breaking[i])],
        !.Summary.BreakingChanges = @ + Len(breaking),
        !.Summary.ModifiedEndpoints = IF Len(changes) > 0 THEN @ + 1 ELSE @]

\* modifiedStep putting the changes of an operation in front of the list
modifiedStepPrepend(d, path, method, changes) ==
  LET breaking == SelectSeq(changes, LAMBDA c : c.IsBreaking)
      ToBreaking(change) ==
        [Path |-> path, Method |-> method, Reason |-> change.Description,
         Migration |-> getMigrationGuide(change)]
  IN [d EXCEPT
        !.Changes = changes \o @,
        !.Breaking = @ \o [i \in 1..Len(breaking) |-> ToBreaking(breaking[i])],
        !.Summary.BreakingChanges = @ + Len(breaking),
        !.Summary.ModifiedEndpoints = IF Len(changes) > 0 THEN @ + 1 ELSE @]

\* modifiedStep counting a modified endpoint for every change
modifiedStepPerChange(d, path, method, changes) ==
  LET breaking == SelectSeq(changes, LAMBDA c : c.IsBreaking)
      ToBreaking(change) ==
        [Path |-> path, Method |-> method, Reason |-> change.Description,
         Migration |-> getMigrationGuide(change)]
  IN [d EXCEPT
        !.Changes = @ \o changes,
        !.Breaking = @ \o [i \in 1..Len(breaking) |-> ToBreaking(breaking[i])],
        !.Summary.BreakingChanges = @ + Len(breaking),
        !.Summary.ModifiedEndpoints = @ + Len(changes)]

\* what the loop that finds modified endpoints does with the changes of one
\* operation
modifiedStep(d, path, method, changes) ==
  LET breaking == SelectSeq(changes, LAMBDA c : c.IsBreaking)
      ToBreaking(change) ==
        [Path |-> path, Method |-> method, Reason |-> change.Description,
         Migration |-> getMigrationGuide(change)]
  IN [d EXCEPT
        !.Changes = @ \o changes,
        !.Breaking = @ \o [i \in 1..Len(breaking) |-> ToBreaking(breaking[i])],
        !.Summary.BreakingChanges = @ + Len(breaking),
        !.Summary.ModifiedEndpoints = IF Len(changes) > 0 THEN @ + 1 ELSE @]

RECURSIVE addedLoop(_, _, _, _)
addedLoop(d, oldPaths, visit, i) ==
  IF i > Len(visit) THEN d
  ELSE addedLoop(addedStep(d, oldPaths, visit[i][1], visit[i][2]), oldPaths, visit, i + 1)

RECURSIVE removedLoop(_, _, _, _)
removedLoop(d, newPaths, visit, i) ==
  IF i > Len(visit) THEN d
  ELSE removedLoop(removedStep(d, newPaths, visit[i][1], visit[i][2]), newPaths, visit, i + 1)

\* set-valued: compareOperations may return any of several change lists
RECURSIVE modifiedLoop(_, _, _, _, _)
modifiedLoop(d, oldPaths, newPaths, visit, i) ==
  IF i > Len(visit) THEN {d}
  ELSE LET path == visit[i][1]
           method == visit[i][2]
       IN IF path \in DOMAIN newPaths /\ method \in DOMAIN newPaths[path]
          THEN UNION {modifiedLoop(modifiedStep(d, path, method, changes),
                                   oldPaths, newPaths, visit, i + 1) :
                        changes \in compareOperations(path, method,
                                                      oldPaths[path][method],
                                                      newPaths[path][method])}
          ELSE modifiedLoop(d, oldPaths, newPaths, visit, i + 1)

\* the Diffs a call may return (the error it returns is always nil)
Compare(old, new) ==
  LET d0 == [OldVersion |-> getVersion(old), NewVersion |-> getVersion(new),
             Changes |-> <<>>, Breaking |-> <<>>,
             Summary |-> [AddedEndpoints |-> 0, RemovedEndpoints |-> 0,
                          ModifiedEndpoints |-> 0, BreakingChanges |-> 0]]
      oldPaths == getPaths(old)
      newPaths == getPaths(new)
      added == {addedLoop(d0, oldPaths, visit, 1) : visit \in Visits(newPaths)}
      removed == {removedLoop(d, newPaths, visit, 1) :
                    d \in added, visit \in Visits(oldPaths)}
  IN UNION {modifiedLoop(d, oldPaths, newPaths, visit, 1) :
              d \in removed, visit \in Visits(oldPaths)}

----------------------------------------------------------------------------
(* Differ.CompareFiles and loadSpec.  A file is missing, or holds a text:   *)
(* a JSON value, given by its syntax tree, or a text that is no JSON.      *)

Missing == [file |-> "missing"]
Holds(text) == [file |-> "text", text |-> text]

NoJson == [j |-> "invalid"]
JNull == [j |-> "null"]
JBool(b) == [j |-> "bool", b |-> b]
JNumber == [j |-> "number"]
JString(s) == [j |-> "string", s |-> s]
JArray(items) == [j |-> "array", items |-> items]
\* members: the name/value pairs of the object, in the order of the text
JObject(members) == [j |-> "object", members |-> members]

\* json.Unmarshal into an interface{}: of the members of an object that
\* have the same name, the last one is kept
RECURSIVE decode(_)
decode(x) ==
  IF x.j = "object"
  THEN LET names == {x.members[i][1] : i \in 1..Len(x.members)}
           Last(n) == CHOOSE i \in 1..Len(x.members) :
                        /\ x.members[i][1] = n
                        /\ \A k \in 1..Len(x.members) : x.members[k][1] = n => k <= i
       IN Map([n \in names |-> decode(x.members[Last(n)][2])])
  ELSE IF x.j = "array" THEN List([i \in 1..Len(x.items) |-> decode(x.items[i])])
  ELSE IF x.j = "string" THEN Str(x.s)
  ELSE IF x.j = "bool" THEN Bool(x.b)
  ELSE IF x.j = "number" THEN Num
  ELSE Nil

\* the zero value of Diff
NoDiff ==
  [OldVersion |-> <<>>, NewVersion |-> <<>>, Changes |-> <<>>, Breaking |-> <<>>,
   Summary |-> [AddedEndpoints |-> 0, RemovedEndpoints |-> 0,
                ModifiedEndpoints |-> 0, BreakingChanges |-> 0]]
\* no call of Compare with the arguments exchanged yet
NoReverse == [called |-> FALSE, diff |-> NoDiff]

\* the nil error
NilError == [message |-> <<>>, wraps |-> "nil"]

PathError == "open: no such file or directory"
SyntaxError == "json: invalid character"
UnmarshalTypeError == "json: cannot unmarshal into Go value of type map[string]interface {}"
NoError == NilError.wraps

\* loadSpec: the document and the error it returns; json.Unmarshal leaves
\* the nil map as it is when the text is null
loadSpec(file) ==
  IF file.file = "missing" THEN [spec |-> NilMap, err |-> PathError]
  ELSE IF file.text.j = "invalid" THEN [spec |-> NilMap, err |-> SyntaxError]
  ELSE IF file.text.j = "null" THEN [spec |-> NilMap, err |-> NoError]
  ELSE IF file.text.j = "object" THEN [spec |-> decode(file.text), err |-> NoError]
  ELSE [spec |-> NilMap, err |-> UnmarshalTypeError]

\* fmt.Errorf("failed to load ... spec: %w", err)
Errorf(format, err) == [message |-> <<format, err>>, wraps |-> err]

\* CompareFiles loading the new file first
CompareFilesNewFirst(fs) ==
  LET new == loadSpec(fs.new)
      old == loadSpec(fs.old)
  IN IF new.err # NoError
     THEN {[diff |-> NoDiff, isNil |-> TRUE, reads |-> <<"new">>,
            err |-> Errorf("failed to load new spec: ", new.err)]}
     ELSE IF old.err # NoError
     THEN {[diff |-> NoDiff, isNil |-> TRUE, reads |-> <<"new", "old">>,
            err |-> Errorf("failed to load old spec: ", old.err)]}
     ELSE {[diff |-> d, isNil |-> FALSE, reads |-> <<"new", "old">>,
            err |-> NilError] : d \in Compare(old.spec, new.spec)}

\* the results a call may have: the *Diff (isNil: it is nil), the error, and
\* the files read, in order
CompareFiles(fs) ==
  LET old == loadSpec(fs.old)
      new == loadSpec(fs.new)
  IN IF old.err # NoError
     THEN {[diff |-> NoDiff, isNil |-> TRUE, reads |-> <<"old">>,
            err |-> Errorf("failed to load old spec: ", old.err)]}
     ELSE IF new.err # NoError
     THEN {[diff |-> NoDiff, isNil |-> TRUE, reads |-> <<"old", "new">>,
            err |-> Errorf("failed to load new spec: ", new.err)]}
     ELSE {[diff |-> d, isNil |-> FALSE, reads |-> <<"old", "new">>,
            err |-> NilError] : d \in Compare(old.spec, new.spec)}

----------------------------------------------------------------------------
(* The migration guide of breaking.go and the changelog of changelog.go.   *)
(* A text is a sequence of lines, a line a sequence of pieces: the         *)
(* characters of a Go string, or the text of a format as one piece.        *)

\* strings.Contains
Contains(s, substr) ==
  \E i \in 0..Len(s) : i + Len(substr) <= Len(s) /\ SubSeq(s, i + 1, i + Len(substr)) = substr

Removed == <<"r", "e", "m", "o", "v", "e", "d">>
RequiredWord == <<"r", "e", "q", "u", "i", "r", "e", "d">>
ParameterWord == <<"p", "a", "r", "a", "m", "e", "t", "e", "r">>

\* fmt.Sprintf("%d", n)
Digits == <<"0", "1", "2", "3", "4", "5", "6", "7", "8", "9">>
RECURSIVE Itoa(_)
Itoa(n) == IF n < 10 THEN <<Digits[n + 1]>> ELSE Itoa(n \div 10) \o <<Digits[(n % 10) + 1]>>

\* createMigrationStep trying "required" before "removed"
createMigrationStepRequiredFirst(breaking) ==
  LET step == [Title |-> <<>>, Description |-> "", Before |-> <<>>, After |-> <<>>,
               Endpoint |-> breaking.Path, Method |-> breaking.Method]
      target == breaking.Method \o <<" ">> \o breaking.Path
  IN IF ~Contains(breaking.Reason, RequiredWord) /\ Contains(breaking.Reason, Removed)
     THEN [step EXCEPT !.Title = <<"Handle removed endpoint: ">> \o target,
                       !.Description = breaking.Migration,
                       !.Before = <<"// Old code using ">> \o target,
                       !.After = <<"// Remove or replace with alternative endpoint">>]
     ELSE IF Contains(breaking.Reason, RequiredWord)
     THEN [step EXCEPT !.Title = <<"Add required field for: ">> \o target,
                       !.Description = breaking.Migration,
                       !.Before = <<"// Request without the new required field">>,
                       !.After = <<"// Add the new required field to your request">>]
     ELSE IF Contains(breaking.Reason, ParameterWord)
     THEN [step EXCEPT !.Title = <<"Update parameters for: ">> \o target,
                       !.Description = breaking.Migration,
                       !.Before = <<"// Old parameter usage">>,
                       !.After = <<"// Updated parameter usage">>]
     ELSE [step EXCEPT !.Title = <<"Update: ">> \o target,
                       !.Description = breaking.Migration]

\* createMigrationStep trying "parameter" before "removed" and "required"
createMigrationStepParameterFirst(breaking) ==
  LET step == [Title |-> <<>>, Description |-> "", Before |-> <<>>, After |-> <<>>,
               Endpoint |-> breaking.Path, Method |-> breaking.Method]
      target == breaking.Method \o <<" ">> \o breaking.Path
  IN IF ~Contains(breaking.Reason, ParameterWord) /\ Contains(breaking.Reason, Removed)
     THEN [step EXCEPT !.Title = <<"Handle removed endpoint: ">> \o target,
                       !.Description = breaking.Migration,
                       !.Before = <<"// Old code using ">> \o target,
                       !.After = <<"// Remove or replace with alternative endpoint">>]
     ELSE IF ~Contains(breaking.Reason, ParameterWord) /\ Contains(breaking.Reason, RequiredWord)
     THEN [step EXCEPT !.Title = <<"Add required field for: ">> \o target,
                       !.Description = breaking.Migration,
                       !.Before = <<"// Request without the new required field">>,
                       !.After = <<"// Add the new required field to your request">>]
     ELSE IF Contains(breaking.Reason, ParameterWord)
     THEN [step EXCEPT !.Title = <<"Update parameters for: ">> \o target,
                       !.Description = breaking.Migration,
                       !.Before = <<"// Old parameter usage">>,
                       !.After = <<"// Updated parameter usage">>]
     ELSE [step EXCEPT !.Title = <<"Update: ">> \o target,
                       !.Description = breaking.Migration]

\* the switch takes the first case whose condition holds
createMigrationStep(breaking) ==
  LET step == [Title |-> <<>>, Description |-> "", Before |-> <<>>, After |-> <<>>,
               Endpoint |-> breaking.Path, Method |-> breaking.Method]
      target == breaking.Method \o <<" ">> \o breaking.Path
  IN IF Contains(breaking.Reason, Removed)
     THEN [step EXCEPT !.Title = <<"Handle removed endpoint: ">> \o target,
                       !.Description = breaking.Migration,
                       !.Before = <<"// Old code using ">> \o target,
                       !.After = <<"// Remove or replace with alternative endpoint">>]
     ELSE IF Contains(breaking.Reason, RequiredWord)
     THEN [step EXCEPT !.Title = <<"Add required field for: ">> \o target,
                       !.Description = breaking.Migration,
                       !.Before = <<"// Request without the new required field">>,
                       !.After = <<"// Add the new required field to your request">>]
     ELSE IF Contains(breaking.Reason, ParameterWord)
     THEN [step EXCEPT !.Title = <<"Update parameters for: ">> \o target,
                       !.Description = breaking.Migration,
                       !.Before = <<"// Old parameter usage">>,
                       !.After = <<"// Updated parameter usage">>]
     ELSE [step EXCEPT !.Title = <<"Update: ">> \o target,
                       !.Description = breaking.Migration]

\* MigrationGenerator.Generate
MigrationGeneratorGenerate(d) ==
  [FromVersion |-> d.OldVersion, ToVersion |-> d.NewVersion,
   Steps |-> [i \in 1..Len(d.Breaking) |-> createMigrationStep(d.Breaking[i])]]

\* the piece that stands for the grave accent, U+0060
Backquote == "U+0060"
Fence == <<Backquote, Backquote, Backquote>>
EndpointPrefix == <<"**Endpoint:** ", Backquote>>
NoMigrationRequired == <<"No breaking changes. No migration required.">>
StepHeading(number, title) == <<"## ">> \o Itoa(number) \o <<". ">> \o title
EndpointLine(method, endpoint) ==
  EndpointPrefix \o method \o <<" ">> \o endpoint \o <<Backquote>>

\* StepLines numbering the steps from 0
StepLinesFromZero(i, step) ==
  <<StepHeading(i, step.Title), <<>>,
    EndpointLine(step.Method, step.Endpoint), <<>>,
    <<step.Description>>, <<>>>>
  \o (IF step.Before # <<>>
      THEN <<<<"**Before:**">>, Fence, step.Before, Fence, <<>>>>
      ELSE <<>>)
  \o (IF step.After # <<>>
      THEN <<<<"**After:**">>, Fence, step.After, Fence, <<>>>>
      ELSE <<>>)

\* the lines written for the step at index i of the range statement, which
\* counts from 0
StepLines(i, step) ==
  <<StepHeading(i + 1, step.Title), <<>>,
    EndpointLine(step.Method, step.Endpoint), <<>>,
    <<step.Description>>, <<>>>>
  \o (IF step.Before # <<>>
      THEN <<<<"**Before:**">>, Fence, step.Before, Fence, <<>>>>
      ELSE <<>>)
  \o (IF step.After # <<>>
      THEN <<<<"**After:**">>, Fence, step.After, Fence, <<>>>>
      ELSE <<>>)

\* MigrationGuide.ToMarkdown
ToMarkdown(g) ==
  LET title == <<"# Migration Guide: ">> \o g.FromVersion \o <<" → ">> \o g.ToVersion
  IN IF Len(g.Steps) = 0
     THEN <<title, <<>>, NoMigrationRequired>>
     ELSE <<title, <<>>,
            <<"This guide covers ">> \o Itoa(Len(g.Steps))
              \o <<" breaking change(s) that require updates.">>, <<>>>>
          \o Flatten([k \in 1..Len(g.Steps) |-> StepLines(k - 1, g.Steps[k])])

\* ChangelogGenerator.Generate; Date, the time of the call, is left out
ChangelogGeneratorGenerate(d) ==
  LET Descriptions(changes) == [i \in 1..Len(changes) |-> changes[i].Description]
      OfType(type) == Descriptions(SelectSeq(d.Changes, LAMBDA c : c.Type = type))
  IN [Version |-> d.NewVersion,
      Added |-> OfType(ChangeAdded),
      Changed |-> OfType(ChangeModified),
      Removed |-> OfType(ChangeRemoved),
      Fixed |-> <<>>,
      Breaking |-> Descriptions(SelectSeq(d.Changes,
                     LAMBDA c : c.Type \in {ChangeRemoved, ChangeModified} /\ c.IsBreaking))]

----------------------------------------------------------------------------
(* Input documents *)

\* bounds of the input space
MaxOps == 3
MaxRequired == 3
MaxParams == 2

Users == <<"/", "u", "s", "e", "r", "s">>
UserById == <<"/", "u", "s", "e", "r", "s", "/", "{", "i", "d", "}">>
Products == <<"/", "p", "r", "o", "d", "u", "c", "t", "s">>
Get == <<"g", "e", "t">>
Post == <<"p", "o", "s", "t">>
Delete == <<"d", "e", "l", "e", "t", "e">>
FieldName == <<"n", "a", "m", "e">>
FieldEmail == <<"e", "m", "a", "i", "l">>
ParamId == <<"i", "d">>
ParamQ == <<"q">>
Code200 == <<"2", "0", "0">>
Code404 == <<"4", "0", "4">>
V1 == <<"1", ".", "0", ".", "0">>
V2 == <<"2", ".", "0", ".", "0">>
Text == Str(<<"t", "e", "x", "t">>)

Json == "application/json"
Xml == "application/xml"

\* a map literal with the keys whose value is given (Nil: the key is absent)
Entry(k, x) == IF x = Nil THEN <<>> ELSE k :> x

Operation(body, responses, parameters) ==
  Map(("summary" :> Text) @@ Entry("requestBody", body)
      @@ Entry("responses", responses) @@ Entry("parameters", parameters))

Document(info, paths) == Map(("openapi" :> Text) @@ Entry("info", info) @@ Entry("paths", paths))

Schema(required) == Map(("type" :> Text) @@ Entry("required", required))
MediaType(required) == Map("schema" :> Schema(required))
RequestBody(required, content) == Map(("description" :> Text) @@ Entry("required", required)
                                      @@ Entry("content", content))
JsonBody(required) == RequestBody(Bool(TRUE), Map(Json :> MediaType(required)))
Responses(codes) == Map([c \in codes |-> Map("description" :> Text)])
Param(name, required) == Map(("in" :> Text) @@ Entry("name", name) @@ Entry("required", required))
Names(fields) == List([i \in 1..Len(fields) |-> Str(fields[i])])

\* sequences over S of length at most n
SeqsUpTo(S, n) == UNION {[1..k -> S] : k \in 0..n}

\* the value of a schema's "required" key: a []string as runDemo writes it,
\* or the []interface{} that decoding JSON gives
Required(decoded, names) == IF decoded THEN Names(names) ELSE Strings(names)

\* the documents of runDemo
demoOld(decoded) ==
  Document(Map(("title" :> Text) @@ ("version" :> Str(V1))),
    Map((Users :> Map((Get :> Operation(Nil, Responses({Code200}), Nil))
                      @@ (Post :> Operation(JsonBody(Required(decoded, <<FieldName>>)), Nil, Nil))))
        @@ (UserById :> Map((Get :> Operation(Nil, Nil, List(<<Param(Str(ParamId), Bool(TRUE))>>)))
                            @@ (Delete :> Operation(Nil, Nil, Nil))))))

demoNew(decoded) ==
  Document(Map(("title" :> Text) @@ ("version" :> Str(V2))),
    Map((Users :> Map((Get :> Operation(Nil, Responses({Code200}), Nil))
                      @@ (Post :> Operation(JsonBody(Required(decoded, <<FieldName, FieldEmail>>)), Nil, Nil))))
        @@ (UserById :> Map(Get :> Operation(Nil, Nil, List(<<Param(Str(ParamId), Bool(TRUE))>>))))
        @@ (Products :> Map(Get :> Operation(Nil, Nil, Nil)))))

\* runDemo writes the required lists as []string literals
DemoPair == <<demoOld(FALSE), demoNew(FALSE)>>
\* the same documents after json.Marshal and loadSpec: arrays are []interface{}
DecodedDemoPair == <<demoOld(TRUE), demoNew(TRUE)>>

\* documents over two paths and two methods, whose operations are one of two
\* operations or a nil map, with at most MaxOps method entries in the two
\* documents together
OpA == Operation(Nil, Responses({Code200, Code404}), List(<<Param(Str(ParamId), Bool(TRUE))>>))
OpB == Operation(Nil, Responses({Code200}), List(<<Param(Str(ParamQ), Bool(TRUE))>>))
SlotValues == {OpA, OpB, NilMap}
PathItems ==
  {Text} \cup {Map(f) : f \in UNION {[S -> SlotValues] : S \in SUBSET {Get, Post} \ {{}}}}
PathsMaps == UNION {[S -> PathItems] : S \in SUBSET {Users, Products}}
\* the number of method entries of a paths map
RECURSIVE CountEntries(_, _)
CountEntries(paths, S) ==
  IF S = {} THEN 0
  ELSE LET p == CHOOSE x \in S : TRUE
       IN (IF IsMap(paths[p]) THEN Cardinality(DOMAIN paths[p].v) ELSE 0)
          + CountEntries(paths, S \ {p})
PathsOfSize(n) == {f \in PathsMaps : CountEntries(f, DOMAIN f) = n}
Sizes(n) == {x \in (0..n) \X (0..n) : x[1] + x[2] <= n}
Structure(paths) == Document(Nil, Map(paths))

\* method entries that are no operation: a string, a number, a nil map
EntryForms ==
  {Map((Get :> g) @@ (Post :> q)) : g \in {OpA, Text, NilMap}, q \in {OpA, Num, NilMap}}
EntryPairs ==
  {<<Structure(Users :> o), Structure(Users :> n)>> : o \in EntryForms, n \in EntryForms}

\* a document with the single operation POST /users
Single(op) == Document(Nil, Map(Users :> Map(Post :> op)))

\* request bodies: absent, no map, nil, and maps with or without "required"
\* and "content"
BodyForms ==
  {Nil, Text, NilMap}
  \cup {RequestBody(required, content) :
          required \in {Nil, Bool(TRUE), Bool(FALSE), Text},
          content \in {Nil, Map(Json :> MediaType(Names(<<FieldName>>)))}}
BodyPairs == {<<Operation(o, Nil, Nil), Operation(n, Nil, Nil)>> : o \in BodyForms, n \in BodyForms}

\* schemas' required lists: one or two media types, at most MaxRequired names
\* in the two operations together
RequiredLists == SeqsUpTo({FieldName, FieldEmail}, MaxRequired)
Contents ==
  {Map(f) : f \in UNION {[S -> {MediaType(Names(l)) : l \in RequiredLists}] :
                           S \in SUBSET {Json, Xml} \ {{}}}}
RECURSIVE CountRequired(_, _)
CountRequired(content, S) ==
  IF S = {} THEN 0
  ELSE LET k == CHOOSE x \in S : TRUE
       IN Len(content.v[k].v["schema"].v["required"].v) + CountRequired(content, S \ {k})
ContentsOfSize(n) == {c \in Contents : CountRequired(c, DOMAIN c.v) = n}
RequiredPairs ==
  UNION {{<<Operation(RequestBody(Bool(TRUE), o), Nil, Nil),
            Operation(RequestBody(Bool(TRUE), n), Nil, Nil)>> :
            o \in ContentsOfSize(i), n \in ContentsOfSize(j)} :
           <<i, j>> \in Sizes(MaxRequired)}

\* malformed and Go-typed media types
OddMediaTypes ==
  {Text, Map("example" :> Text), MediaType(Nil), MediaType(Text),
   MediaType(Strings(<<FieldName>>)), MediaType(Strings(<<FieldName, FieldEmail>>)),
   MediaType(List(<<Num, Str(FieldName)>>)), MediaType(Names(<<FieldName>>))}
OddPairs ==
  {<<Operation(RequestBody(Bool(TRUE), Map(Json :> o)), Nil, Nil),
     Operation(RequestBody(Bool(TRUE), Map(Json :> n)), Nil, Nil)>> :
     o \in OddMediaTypes, n \in OddMediaTypes}

ResponsesForms == {Nil, Text} \cup {Responses(S) : S \in SUBSET {Code200, Code404}}
ResponsesPairs ==
  {<<Operation(Nil, o, Nil), Operation(Nil, n, Nil)>> : o \in ResponsesForms, n \in ResponsesForms}

\* parameter arrays: at most MaxParams entries in the two operations together
ParamForms ==
  {Text, Param(Nil, Bool(TRUE)), Param(Num, Bool(TRUE))}
  \cup {Param(Str(name), required) :
          name \in {ParamId, ParamQ}, required \in {Nil, Bool(TRUE), Bool(FALSE), Text}}
ParamPairs ==
  {<<Operation(Nil, Nil, Nil), Operation(Nil, Nil, Text)>>}
  \cup UNION {{<<Operation(Nil, Nil, List(o)), Operation(Nil, Nil, List(n))>> :
                 o \in [1..i -> ParamForms], n \in [1..j -> ParamForms]} :
                <<i, j>> \in Sizes(MaxParams)}

\* operations that differ in several respects at once
MixedOps ==
  {Operation(body, responses, List(parameters)) :
     body \in {Nil, JsonBody(Names(<<FieldName>>)), JsonBody(Names(<<FieldName, FieldEmail>>))},
     responses \in {Responses({Code200}), Responses({Code200, Code404})},
     parameters \in {<<>>, <<Param(Str(ParamId), Bool(TRUE))>>,
                     <<Param(Str(ParamId), Bool(TRUE)), Param(Str(ParamQ), Bool(TRUE))>>}}
MixedPairs == MixedOps \X MixedOps

\* field, response code and parameter names that are the empty string
Empty == <<>>
EmptyNameOps ==
  {Operation(body, responses, List(parameters)) :
     body \in {Nil, JsonBody(Names(<<Empty>>))},
     responses \in {Nil, Responses({Empty})},
     parameters \in {<<>>, <<Param(Str(Empty), Bool(TRUE))>>}}
EmptyNamePairs == EmptyNameOps \X EmptyNameOps

\* documents whose "info" or "paths" is missing or malformed
InfoForms == {Nil, Text, NilMap, Map("title" :> Text), Map("version" :> Num),
              Map("version" :> Str(V1)), Map("version" :> Str(V2))}
InfoPairs ==
  {<<Document(o, p), Document(n, p)>> :
     o \in InfoForms, n \in InfoForms, p \in {Nil, Text, NilMap, Map(Users :> Map(Get :> OpA))}}

\* each pair is compared as given, and each of its documents with itself
Chosen(p) ==
  \/ oldSpec = p[1] /\ newSpec = p[2]
  \/ oldSpec = p[1] /\ newSpec = p[1]
  \/ oldSpec = p[2] /\ newSpec = p[2]

Inputs ==
  \/ \E p \in {DemoPair, DecodedDemoPair} : Chosen(p)
  \/ \E x \in Sizes(MaxOps) : \E o \in PathsOfSize(x[1]), n \in PathsOfSize(x[2]) :
       Chosen(<<Structure(o), Structure(n)>>)
  \/ \E p \in BodyPairs \cup OddPairs \cup ResponsesPairs \cup MixedPairs \cup EmptyNamePairs :
       Chosen(<<Single(p[1]), Single(p[2])>>)
  \/ \E p \in RequiredPairs : Chosen(<<Single(p[1]), Single(p[2])>>)
  \/ \E p \in ParamPairs : Chosen(<<Single(p[1]), Single(p[2])>>)
  \/ \E p \in EntryPairs \cup InfoPairs : Chosen(p)

----------------------------------------------------------------------------
(* The state machine: a pair of documents, compared any number of times *)

\* the zero values of MigrationGuide and ChangelogEntry
NoGuide == [FromVersion |-> <<>>, ToVersion |-> <<>>, Steps |-> <<>>]
NoEntry == [Version |-> <<>>, Added |-> <<>>, Changed |-> <<>>, Removed |-> <<>>,
            Fixed |-> <<>>, Breaking |-> <<>>]

\* nothing has been generated from a Diff
NoReport ==
  /\ guide = NoGuide
  /\ markdown = <<>>
  /\ entry = NoEntry
  /\ generated = {}

\* CompareFiles has not been called
NoResult == [made |-> FALSE, diff |-> NoDiff, isNil |-> TRUE, err |-> NilError]
NoFiles ==
  /\ files = [old |-> Missing, new |-> Missing]
  /\ reads = <<>>
  /\ result = NoResult

\* the goroutines that call a Docs
Goroutines == {1, 2}

\* the nil *spec.OpenAPI, and the Docs that New returns: no endpoint, no
\* cached specification, the mutex free, no call under way
NoSpec == [id |-> 0, Paths |-> <<>>]
NoEndpoint == [Method |-> <<>>, Path |-> <<>>, Summary |-> <<>>]
NoFrame ==
  [op |-> "none", arg |-> NoEndpoint, ret |-> NoSpec, calls |-> 0,
   seen |-> {}, after |-> 0, quiet |-> FALSE, prev |-> 0]
NoHistory ==
  [returned |-> {}, adds |-> 0, builtAfter |-> <<>>, last |-> 0, quiet |-> FALSE]
New ==
  /\ endpoints = <<>>
  /\ openapi = NoSpec
  /\ mu = 0
  /\ heap = 0
  /\ pc = [g \in Goroutines |-> "idle"]
  /\ frame = [g \in Goroutines |-> NoFrame]
  /\ history = NoHistory

Init ==
  /\ Inputs
  /\ diff = NoDiff
  /\ called = FALSE
  /\ reverse = NoReverse
  /\ NoReport
  /\ NoFiles
  /\ New

\* differ.Compare(oldSpec, newSpec); diff is the Diff the last call returned,
\* called tells that there was a call
CallCompare ==
  /\ \E d \in Compare(oldSpec, newSpec) : diff' = d
  /\ called' = TRUE
  /\ UNCHANGED <<oldSpec, newSpec, reverse, reportVars, fileVars, docsVars>>

Next == CallCompare

Spec == Init /\ [][Next]_vars

----------------------------------------------------------------------------
(* A pair of documents compared in both directions *)

\* the method entries of the two documents together, at most
MaxSwapOps == 2

SwapInputs ==
  \/ \E x \in Sizes(MaxSwapOps) : \E o \in PathsOfSize(x[1]), n \in PathsOfSize(x[2]) :
       oldSpec = Structure(o) /\ newSpec = Structure(n)
  \/ \E p \in EntryPairs \cup {DemoPair} : oldSpec = p[1] /\ newSpec = p[2]

SwapInit ==
  /\ SwapInputs
  /\ diff = NoDiff
  /\ called = FALSE
  /\ reverse = NoReverse
  /\ NoReport
  /\ NoFiles
  /\ New

\* differ.Compare(newSpec, oldSpec): the same documents, arguments exchanged
CallCompareReversed ==
  /\ \E d \in Compare(newSpec, oldSpec) : reverse' = [called |-> TRUE, diff |-> d]
  /\ UNCHANGED <<oldSpec, newSpec, diff, called, reportVars, fileVars, docsVars>>

SwapNext == CallCompare \/ CallCompareReversed

SwapSpec == SwapInit /\ [][SwapNext]_vars

----------------------------------------------------------------------------
(* The state machine of the reports: a Diff, from which a migration guide   *)
(* and a changelog entry are generated                                     *)

\* bounds of the Diff values built by hand
MaxChanges == 2
MaxBreaking == 2

DescA == <<"a">>
DescB == <<"b">>
Deprecated == "deprecated"
TypeChanged == <<"T", "y", "p", "e", " ", "c", "h", "a", "n", "g", "e", "d">>
ParameterRenamed == <<"R", "e", "n", "a", "m", "e", "d", " ", "p", "a", "r", "a", "m", "e", "t", "e", "r">>
RequiredRemoved == <<"r", "e", "q", "u", "i", "r", "e", "d", " ", "f", "i", "e", "l", "d", " ", "r", "e", "m", "o", "v", "e", "d">>
SeeReleaseNotes == "See the release notes"

\* Diff is an exported struct: a caller may fill it in as it likes
SomeChanges ==
  [Type : {ChangeAdded, ChangeRemoved, ChangeModified, Deprecated},
   Path : {Users}, Method : {Get}, Description : {DescA, DescB}, IsBreaking : BOOLEAN]
SomeBreaking ==
  [Path : {Users, Products}, Method : {Get},
   Reason : {EndpointRemoved, NewRequiredFieldDesc(FieldName), ParameterRenamed, TypeChanged,
             RequiredRemoved, RequiredBodyAdded, NewRequiredParameterDesc(ParamId)},
   Migration : {"Review the change and update client code accordingly"}]
  \cup [Path : {Users}, Method : {Post}, Reason : {TypeChanged}, Migration : {SeeReleaseNotes}]
BuiltDiff(changes, breaking) ==
  [OldVersion |-> V1, NewVersion |-> V2, Changes |-> changes, Breaking |-> breaking,
   Summary |-> NoDiff.Summary]

\* the documents whose Diff is reported on
ReportPairs ==
  {DemoPair, DecodedDemoPair}
  \cup {<<Single(p[1]), Single(p[2])>> : p \in MixedPairs \cup EmptyNamePairs}

ReportInit ==
  /\ \/ \E p \in ReportPairs :
          /\ oldSpec = p[1] /\ newSpec = p[2]
          /\ diff \in Compare(p[1], p[2])
          /\ called = TRUE
     \/ /\ oldSpec = Map(<<>>) /\ newSpec = Map(<<>>)
        /\ called = FALSE
        /\ \/ \E changes \in SeqsUpTo(SomeChanges, MaxChanges) : diff = BuiltDiff(changes, <<>>)
           \/ \E breaking \in SeqsUpTo(SomeBreaking, MaxBreaking) : diff = BuiltDiff(<<>>, breaking)
  /\ reverse = NoReverse
  /\ NoReport
  /\ NoFiles
  /\ New

\* guide := NewMigrationGenerator().Generate(diff)
GenerateGuide ==
  /\ guide' = MigrationGeneratorGenerate(diff)
  /\ generated' = generated \cup {"guide"}
  /\ UNCHANGED <<compareVars, markdown, entry, fileVars, docsVars>>

\* markdown := guide.ToMarkdown()
RenderGuide ==
  /\ "guide" \in generated
  /\ markdown' = ToMarkdown(guide)
  /\ generated' = generated \cup {"markdown"}
  /\ UNCHANGED <<compareVars, guide, entry, fileVars, docsVars>>

\* Generate taking the Changes out of the Diff as it files them
GenerateChangelogDraining ==
  /\ entry' = ChangelogGeneratorGenerate(diff)
  /\ generated' = generated \cup {"entry"}
  /\ diff' = [diff EXCEPT !.Changes = <<>>]
  /\ UNCHANGED <<oldSpec, newSpec, called, reverse, guide, markdown, fileVars, docsVars>>

\* entry := NewChangelogGenerator().Generate(diff)
GenerateChangelog ==
  /\ entry' = ChangelogGeneratorGenerate(diff)
  /\ generated' = generated \cup {"entry"}
  /\ UNCHANGED <<compareVars, guide, markdown, fileVars, docsVars>>

ReportNext == GenerateGuide \/ RenderGuide \/ GenerateChangelog

ReportSpec == ReportInit /\ [][ReportNext]_vars

----------------------------------------------------------------------------
(* Two documents that are compared and whose Diff is reported on, in any    *)
(* order and any number of times, as runDemo does once                      *)

FrameInit ==
  /\ \E p \in ReportPairs : oldSpec = p[1] /\ newSpec = p[2]
  /\ diff = NoDiff
  /\ called = FALSE
  /\ reverse = NoReverse
  /\ NoReport
  /\ NoFiles
  /\ New

FrameNext == CallCompare \/ GenerateGuide \/ RenderGuide \/ GenerateChangelog

FrameSpec == FrameInit /\ [][FrameNext]_vars

----------------------------------------------------------------------------
(* The state machine of CompareFiles: two files, compared any number of     *)
(* times                                                                   *)

JsonText == JString(Text.v)
JsonResponses(codes) ==
  JObject([i \in 1..Len(codes) |-> <<codes[i], JObject(<<<<"description", JsonText>>>>)>>])
JsonOperation(members) == JObject(<<<<"summary", JsonText>>>> \o members)
JsonDocument(version, paths) ==
  JObject(<<<<"openapi", JsonText>>,
            <<"info", JObject(<<<<"version", JString(version)>>>>)>>,
            <<"paths", JObject(paths)>>>>)

\* two documents as JSON texts, and the values they decode to
JsonDocA ==
  JsonDocument(V1,
    <<<<Users, JObject(<<<<Get, JsonOperation(<<<<"responses",
                                   JsonResponses(<<Code200, Code404>>)>>>>)>>>>)>>>>)
GoDocA ==
  Document(Map("version" :> Str(V1)),
           Map(Users :> Map(Get :> Operation(Nil, Responses({Code200, Code404}), Nil))))
JsonDocB ==
  JsonDocument(V2,
    <<<<Users,
        JObject(<<<<Get, JsonOperation(<<
          <<"requestBody",
            JObject(<<<<"description", JsonText>>, <<"required", JBool(TRUE)>>,
                      <<"content", JObject(<<<<Json, JObject(<<<<"schema",
                          JObject(<<<<"type", JsonText>>,
                                    <<"required", JArray(<<JString(FieldName)>>)>>>>)>>>>)>>>>)>>>>)>>,
          <<"responses", JsonResponses(<<Code200>>)>>>>)>>>>)>>>>)
GoDocB ==
  Document(Map("version" :> Str(V2)),
           Map(Users :> Map(Get :> Operation(JsonBody(Names(<<FieldName>>)),
                                             Responses({Code200}), Nil))))
\* JsonDocA with a second "paths" member, which has no path
JsonDocTwice == JObject(JsonDocA.members \o <<<<"paths", JObject(<<>>)>>>>)

FileForms ==
  {Missing, Holds(NoJson), Holds(JNull), Holds(JArray(<<JObject(<<>>)>>)),
   Holds(JString(Users)), Holds(JNumber), Holds(JBool(TRUE)), Holds(JObject(<<>>)),
   Holds(JsonDocA), Holds(JsonDocB), Holds(JsonDocTwice)}

FilesInit ==
  /\ files \in [old : FileForms, new : FileForms]
  /\ reads = <<>>
  /\ result = NoResult
  /\ oldSpec = Map(<<>>) /\ newSpec = Map(<<>>)
  /\ diff = NoDiff
  /\ called = FALSE
  /\ reverse = NoReverse
  /\ NoReport
  /\ New

\* diff, err := differ.CompareFiles(oldPath, newPath); reads are the files
\* the call read
CallCompareFiles ==
  /\ \E r \in CompareFiles(files) :
       /\ result' = [made |-> TRUE, diff |-> r.diff, isNil |-> r.isNil, err |-> r.err]
       /\ reads' = r.reads
  /\ UNCHANGED <<files, compareVars, reportVars, docsVars>>

FilesNext == CallCompareFiles

FilesSpec == FilesInit /\ [][FilesNext]_vars

----------------------------------------------------------------------------
(* Docs of openapi.go: goroutines that call Add and BuildSpec on one Docs.  *)
(* A call is a sequence of steps: the call, taking the mutex, the           *)
(* statements of the body, and the return, which releases the mutex.        *)
(* history and the fields seen, after, quiet and prev of a frame record     *)
(* what has returned, for the properties; the code does not read them.      *)

\* the number of calls of one goroutine
MaxCalls == 2

LowerCase == <<"a", "d", "e", "g", "h", "o", "p", "s", "t">>
UpperCase == <<"A", "D", "E", "G", "H", "O", "P", "S", "T">>
\* strings.ToUpper
ToUpper(str) ==
  LET Upper(c) == IF \E i \in 1..Len(LowerCase) : LowerCase[i] = c
                  THEN UpperCase[CHOOSE i \in 1..Len(LowerCase) : LowerCase[i] = c]
                  ELSE c
  IN [i \in 1..Len(str) |-> Upper(str[i])]

NewPathItem == [Get |-> Nil, Post |-> Nil, Put |-> Nil, Patch |-> Nil, Delete |-> Nil]
buildOperation(ep) == [Summary |-> ep.Summary]

\* the Paths of the specification after addEndpointToSpec
addEndpointToSpec(paths, ep) ==
  LET pathItem == IF ep.Path \in DOMAIN paths THEN paths[ep.Path] ELSE NewPathItem
      operation == buildOperation(ep)
      method == ToUpper(ep.Method)
      item == IF method = <<"G", "E", "T">> THEN [pathItem EXCEPT !.Get = operation]
              ELSE IF method = <<"P", "O", "S", "T">> THEN [pathItem EXCEPT !.Post = operation]
              ELSE IF method = <<"P", "U", "T">> THEN [pathItem EXCEPT !.Put = operation]
              ELSE IF method = <<"P", "A", "T", "C", "H">> THEN [pathItem EXCEPT !.Patch = operation]
              ELSE IF method = <<"D", "E", "L", "E", "T", "E">>
                THEN [pathItem EXCEPT !.Delete = operation]
              ELSE pathItem
  IN [p \in DOMAIN paths \cup {ep.Path} |-> IF p = ep.Path THEN item ELSE paths[p]]

\* the loop of BuildSpec over d.endpoints
RECURSIVE buildPaths(_, _, _)
buildPaths(paths, eps, i) ==
  IF i > Len(eps) THEN paths
  ELSE buildPaths(addEndpointToSpec(paths, eps[i]), eps, i + 1)

\* the endpoints the goroutines add
HeadMethod == <<"h", "e", "a", "d">>
EndpointForms ==
  {[Method |-> Get, Path |-> Users, Summary |-> DescA],
   [Method |-> HeadMethod, Path |-> Products, Summary |-> DescB]}

InAdd(g) == pc[g] \in {"Add", "Add.append", "Add.invalidate", "Add.return"}

\* what the calls of a Docs leave alone
otherVars == <<compareVars, reportVars, fileVars>>

\* go d.Add(endpoint)
CallAdd(g) ==
  /\ pc[g] = "idle"
  /\ frame[g].calls < MaxCalls
  /\ \E ep \in EndpointForms :
       frame' = [frame EXCEPT ![g] = [@ EXCEPT !.op = "Add", !.arg = ep, !.calls = @ + 1]]
  /\ pc' = [pc EXCEPT ![g] = "Add"]
  /\ history' = [history EXCEPT !.quiet = FALSE]
  /\ UNCHANGED <<endpoints, openapi, mu, heap, otherVars>>

\* d.mu.Lock()
AddLock(g) ==
  /\ pc[g] = "Add"
  /\ mu = 0
  /\ mu' = g
  /\ pc' = [pc EXCEPT ![g] = "Add.append"]
  /\ UNCHANGED <<endpoints, openapi, heap, frame, history, otherVars>>

\* d.endpoints = append(d.endpoints, endpoint)
AddAppend(g) ==
  /\ pc[g] = "Add.append"
  /\ endpoints' = Append(endpoints, frame[g].arg)
  /\ pc' = [pc EXCEPT ![g] = "Add.invalidate"]
  /\ UNCHANGED <<openapi, mu, heap, frame, history, otherVars>>

\* AddInvalidate leaving the cached specification in place
AddInvalidateKeepsCache(g) ==
  /\ pc[g] = "Add.invalidate"
  /\ pc' = [pc EXCEPT ![g] = "Add.return"]
  /\ UNCHANGED <<endpoints, openapi, mu, heap, frame, history, otherVars>>

\* d.openapi = nil
AddInvalidate(g) ==
  /\ pc[g] = "Add.invalidate"
  /\ openapi' = NoSpec
  /\ pc' = [pc EXCEPT ![g] = "Add.return"]
  /\ UNCHANGED <<endpoints, mu, heap, frame, history, otherVars>>

\* the deferred d.mu.Unlock(), and the return
AddReturn(g) ==
  /\ pc[g] = "Add.return"
  /\ mu' = 0
  /\ pc' = [pc EXCEPT ![g] = "idle"]
  /\ history' = [history EXCEPT !.returned = @ \cup {frame[g].arg}, !.adds = @ + 1]
  /\ UNCHANGED <<endpoints, openapi, heap, frame, otherVars>>

\* go d.BuildSpec()
CallBuildSpec(g) ==
  /\ pc[g] = "idle"
  /\ frame[g].calls < MaxCalls
  /\ frame' = [frame EXCEPT ![g] = [@ EXCEPT !.op = "BuildSpec", !.calls = @ + 1,
                                             !.ret = NoSpec,
                                             !.seen = history.returned,
                                             !.after = history.adds]]
  /\ pc' = [pc EXCEPT ![g] = "BuildSpec"]
  /\ UNCHANGED <<endpoints, openapi, mu, heap, history, otherVars>>

\* d.mu.Lock()
BuildSpecLock(g) ==
  /\ pc[g] = "BuildSpec"
  /\ mu = 0
  /\ mu' = g
  /\ pc' = [pc EXCEPT ![g] = "BuildSpec.check"]
  /\ UNCHANGED <<endpoints, openapi, heap, frame, history, otherVars>>

\* if d.openapi != nil { return d.openapi }
BuildSpecCheck(g) ==
  /\ pc[g] = "BuildSpec.check"
  /\ IF openapi # NoSpec
     THEN /\ frame' = [frame EXCEPT ![g].ret = openapi]
          /\ pc' = [pc EXCEPT ![g] = "BuildSpec.return"]
     ELSE /\ pc' = [pc EXCEPT ![g] = "BuildSpec.build"]
          /\ UNCHANGED frame
  /\ UNCHANGED <<endpoints, openapi, mu, heap, history, otherVars>>

\* openapi := spec.NewOpenAPI(info); the loop over d.endpoints;
\* d.openapi = openapi; return openapi
BuildSpecBuild(g) ==
  /\ pc[g] = "BuildSpec.build"
  /\ heap' = heap + 1
  /\ openapi' = [id |-> heap + 1, Paths |-> buildPaths(<<>>, endpoints, 1)]
  /\ frame' = [frame EXCEPT ![g].ret = openapi']
  /\ pc' = [pc EXCEPT ![g] = "BuildSpec.return"]
  /\ history' = [history EXCEPT !.builtAfter = Append(@, history.adds)]
  /\ UNCHANGED <<endpoints, mu, otherVars>>

\* the deferred d.mu.Unlock(), and the return
BuildSpecReturn(g) ==
  /\ pc[g] = "BuildSpec.return"
  /\ mu' = 0
  /\ pc' = [pc EXCEPT ![g] = "idle"]
  /\ frame' = [frame EXCEPT ![g] = [@ EXCEPT !.quiet = history.quiet, !.prev = history.last]]
  /\ history' = [history EXCEPT !.last = frame[g].ret.id,
                                 !.quiet = \A other \in Goroutines : ~InAdd(other)]
  /\ UNCHANGED <<endpoints, openapi, heap, otherVars>>

DocsInit ==
  /\ New
  /\ oldSpec = Map(<<>>) /\ newSpec = Map(<<>>)
  /\ diff = NoDiff
  /\ called = FALSE
  /\ reverse = NoReverse
  /\ NoReport
  /\ NoFiles

DocsNext ==
  \E g \in Goroutines :
    \/ CallAdd(g) \/ AddLock(g) \/ AddAppend(g) \/ AddInvalidate(g) \/ AddReturn(g)
    \/ CallBuildSpec(g) \/ BuildSpecLock(g) \/ BuildSpecCheck(g)
    \/ BuildSpecBuild(g) \/ BuildSpecReturn(g)

DocsSpec == DocsInit /\ [][DocsNext]_vars

----------------------------------------------------------------------------
(* Vocabulary of the properties *)

AllPaths == {Users, UserById, Products}
AllMethods == {Get, Post, Delete}
Endpoints == AllPaths \X AllMethods

\* x[k] when x is a map, nothing otherwise
Lookup(x, k) == IF IsMap(x) THEN Index(x, k) ELSE Nil
\* what a document holds at paths[path][method]
EntryAt(doc, path, method) == Lookup(Lookup(Lookup(doc, "paths"), path), method)
\* the document describes an operation there: a map that is not nil
HasOperation(doc, path, method) == EntryAt(doc, path, method).t = "map"

\* f without the key k
Except(f, k) == [x \in DOMAIN f \ {k} |-> f[x]]

IsBreaking(c) == c.IsBreaking
BreakingChangesOf(d) == SelectSeq(d.Changes, IsBreaking)
ChangesOfType(d, type) == SelectSeq(d.Changes, LAMBDA c : c.Type = type)
ChangesAt(d, path, method) ==
  SelectSeq(d.Changes, LAMBDA c : c.Path = path /\ c.Method = method)
ZeroSummary ==
  [AddedEndpoints |-> 0, RemovedEndpoints |-> 0, ModifiedEndpoints |-> 0, BreakingChanges |-> 0]

----------------------------------------------------------------------------
(* C1: in the Diff a call returned, Summary.BreakingChanges is the length   *)
(* of Breaking and the number of Changes whose IsBreaking is true.         *)
SummaryConsistent ==
  called =>
    /\ diff.Summary.BreakingChanges = Len(diff.Breaking)
    /\ diff.Summary.BreakingChanges = Len(BreakingChangesOf(diff))

\* a Diff with a removed endpoint and an operation with two breaking changes
SummaryConsistentWitness ==
  /\ called
  /\ diff.Summary.RemovedEndpoints >= 1
  /\ \E e \in Endpoints :
       Len(SelectSeq(ChangesAt(diff, e[1], e[2]),
                     LAMBDA c : c.Type = ChangeModified /\ c.IsBreaking)) >= 2

(* C2: a path+method with an operation in the old document and none in the *)
(* new one gets exactly one removed Change, which is breaking, and exactly  *)
(* one BreakingChange with the reason "Endpoint removed"; RemovedEndpoints  *)
(* is the number of such path+method pairs.                                *)
RemovedPairs ==
  {e \in Endpoints : HasOperation(oldSpec, e[1], e[2]) /\ ~HasOperation(newSpec, e[1], e[2])}

RemovalIsBreaking ==
  called =>
    /\ \A e \in RemovedPairs :
         /\ Len(SelectSeq(ChangesAt(diff, e[1], e[2]),
                          LAMBDA c : c.Type = ChangeRemoved)) = 1
         /\ \A i \in 1..Len(diff.Changes) :
              (diff.Changes[i].Type = ChangeRemoved /\ diff.Changes[i].Path = e[1]
                 /\ diff.Changes[i].Method = e[2]) => diff.Changes[i].IsBreaking
         /\ Len(SelectSeq(diff.Breaking,
                          LAMBDA b : b.Path = e[1] /\ b.Method = e[2]
                                     /\ b.Reason = EndpointRemoved)) = 1
    /\ diff.Summary.RemovedEndpoints = Cardinality(RemovedPairs)

(* C3: comparing a document with itself gives no Changes, no Breaking and   *)
(* a Summary of zeros.                                                     *)
SelfCompareEmpty ==
  (called /\ oldSpec = newSpec) =>
    /\ diff.Changes = <<>>
    /\ diff.Breaking = <<>>
    /\ diff.Summary = ZeroSummary

(* C4: when the new document is the old one plus one operation, there is    *)
(* one added endpoint, one added Change, not breaking, and no breaking      *)
(* change; an added Change is never breaking and has no BreakingChange.     *)
\* new is old with the operation at path+method put in
AddsOperation(old, new, path, method) ==
  LET paths == Lookup(new, "paths")
      item == Lookup(paths, path)
      without == [new EXCEPT !.v["paths"].v[path].v = Except(@, method)]
      withoutPath == [new EXCEPT !.v["paths"].v = Except(@, path)]
  IN /\ HasOperation(new, path, method)
     /\ \/ old = without
        \/ DOMAIN item.v = {method} /\ old = withoutPath

AdditionNotBreaking ==
  called =>
    /\ (\E e \in Endpoints : AddsOperation(oldSpec, newSpec, e[1], e[2])) =>
         /\ diff.Summary.AddedEndpoints = 1
         /\ Len(ChangesOfType(diff, ChangeAdded)) = 1
         /\ diff.Summary.BreakingChanges = 0
         /\ diff.Breaking = <<>>
    /\ \A i \in 1..Len(diff.Changes) :
         diff.Changes[i].Type = ChangeAdded => ~diff.Changes[i].IsBreaking
    /\ Len(diff.Breaking) = Len(SelectSeq(diff.Changes,
                                          LAMBDA c : c.Type # ChangeAdded /\ c.IsBreaking))

(* C5: when the operations are the same but for one more name f in the      *)
(* required list of a schema of the new request body, there is a modified,  *)
(* breaking Change "New required field: f", and at least one breaking       *)
(* change is counted.                                                      *)
\* the "required" value of the schema of media type k, Nil if there is none
RequiredOf(op, k) ==
  Lookup(Lookup(Lookup(Lookup(Lookup(op, "requestBody"), "content"), k), "schema"), "required")
\* the item x of the required list req is the name f
IsName(req, x, f) == IF req.t = "list" THEN x = Str(f) ELSE x = f
\* new is old but for the name f, which only the required list of new has
AddsRequired(old, new, k, f) ==
  LET o == RequiredOf(old, k)
      n == RequiredOf(new, k)
  IN /\ n.t \in {"list", "strings"}
     /\ o.t = n.t
     /\ \E i \in 1..Len(n.v) : IsName(n, n.v[i], f)
     /\ o.v = SelectSeq(n.v, LAMBDA x : ~IsName(n, x, f))
     /\ old = [new EXCEPT !.v["requestBody"].v["content"].v[k].v["schema"].v["required"] = o]

RequiredFieldBreaking ==
  called =>
    \A e \in Endpoints, k \in {Json, Xml}, f \in {FieldName, FieldEmail} :
      (/\ HasOperation(oldSpec, e[1], e[2])
       /\ HasOperation(newSpec, e[1], e[2])
       /\ AddsRequired(EntryAt(oldSpec, e[1], e[2]), EntryAt(newSpec, e[1], e[2]), k, f))
      => /\ \E i \in 1..Len(diff.Changes) :
              diff.Changes[i] = [Type |-> ChangeModified, Path |-> e[1], Method |-> e[2],
                                 Description |-> NewRequiredFieldDesc(f),
                                 IsBreaking |-> TRUE]
         /\ diff.Summary.BreakingChanges >= 1

(* C6: when the new operation is the old one plus a request body that is    *)
(* not marked required:true, there is no Change for that operation.        *)
AddsOptionalBody(old, new) ==
  LET body == Lookup(new, "requestBody")
      required == Lookup(body, "required")
  IN /\ "requestBody" \notin DOMAIN old.v
     /\ body.t = "map"
     /\ required # Bool(TRUE)
     /\ old = [new EXCEPT !.v = Except(@, "requestBody")]

OptionalBodyNoChange ==
  called =>
    \A e \in Endpoints :
      (/\ HasOperation(oldSpec, e[1], e[2])
       /\ HasOperation(newSpec, e[1], e[2])
       /\ AddsOptionalBody(EntryAt(oldSpec, e[1], e[2]), EntryAt(newSpec, e[1], e[2])))
      => ChangesAt(diff, e[1], e[2]) = <<>>

(* C7: for the documents of the demo, as written in Go and as decoded from  *)
(* JSON, one endpoint is added, one removed, one modified, and two changes  *)
(* are breaking.                                                           *)
DemoSummary ==
  (called /\ <<oldSpec, newSpec>> \in {DemoPair, DecodedDemoPair}) =>
    diff.Summary = [AddedEndpoints |-> 1, RemovedEndpoints |-> 1,
                    ModifiedEndpoints |-> 1, BreakingChanges |-> 2]

(* C8: a call on the same two documents returns the Diff the call before    *)
(* returned, the order of Changes and Breaking included.                   *)
CompareDeterministic == [][called => diff' = diff]_vars

(* C9: Breaking is as long as the breaking Changes, and its i-th element    *)
(* has the Path and Method of the i-th breaking Change.                    *)
BreakingMatchesChanges ==
  called =>
    LET breaking == BreakingChangesOf(diff)
    IN /\ Len(diff.Breaking) = Len(breaking)
       /\ \A i \in 1..Len(breaking) :
            i <= Len(diff.Breaking) =>
              /\ diff.Breaking[i].Path = breaking[i].Path
              /\ diff.Breaking[i].Method = breaking[i].Method

\* two removed endpoints, so that the order of Breaking shows
BreakingMatchesChangesWitness ==
  /\ called
  /\ Len(ChangesOfType(diff, ChangeRemoved)) >= 2
  /\ Len(diff.Breaking) >= 2
  /\ <<diff.Breaking[1].Path, diff.Breaking[1].Method>>
       # <<diff.Breaking[2].Path, diff.Breaking[2].Method>>

(* C10, as claimed: the Reason of every BreakingChange is the Description   *)
(* of the Change it comes from.                                            *)
ReasonIsDescription ==
  called =>
    \A i \in 1..Len(diff.Breaking) :
      i <= Len(BreakingChangesOf(diff)) =>
        diff.Breaking[i].Reason = BreakingChangesOf(diff)[i].Description

(* C10, amended: the Reason of a BreakingChange that comes from a modified  *)
(* Change is the Description of that Change; the Reason of one that comes   *)
(* from a removed Change is "Endpoint removed", while the Description of    *)
(* that Change is "Removed endpoint: <method> <path>".                      *)
ReasonOfModifiedIsDescription ==
  called =>
    LET breaking == BreakingChangesOf(diff)
    IN /\ Len(diff.Breaking) = Len(breaking)
       /\ \A i \in 1..Len(breaking) :
            i <= Len(diff.Breaking) =>
              /\ breaking[i].Type = ChangeModified =>
                   diff.Breaking[i].Reason = breaking[i].Description
              /\ breaking[i].Type = ChangeRemoved =>
                   /\ diff.Breaking[i].Reason = EndpointRemoved
                   /\ breaking[i].Description
                        = RemovedEndpointDesc(breaking[i].Method, breaking[i].Path)

\* a Diff with a BreakingChange of either origin
ReasonOfModifiedIsDescriptionWitness ==
  /\ called
  /\ \E i, j \in 1..Len(diff.Breaking) :
       /\ diff.Breaking[i].Reason = EndpointRemoved
       /\ diff.Breaking[j].Reason = NewRequiredFieldDesc(FieldEmail)

(* C11: the BreakingChange of a breaking Change whose Description starts    *)
(* with "New required parameter" has the Migration "Add the new required    *)
(* parameter to client calls".                                             *)
HasPrefix(s, prefix) == Len(s) >= Len(prefix) /\ SubSeq(s, 1, Len(prefix)) = prefix

NewRequiredParameterMigration ==
  called =>
    \A i \in 1..Len(diff.Breaking) :
      (/\ i <= Len(BreakingChangesOf(diff))
       /\ HasPrefix(BreakingChangesOf(diff)[i].Description, NewRequiredParameter))
      => diff.Breaking[i].Migration = "Add the new required parameter to client calls"

(* C12: the Migration of the BreakingChange of a breaking modified Change   *)
(* follows the rule table for the descriptions "Request body removed",      *)
(* "Required request body added", "New required field...", "Response        *)
(* code..." and "Parameter...".                                            *)
RuleTable(description, migration) ==
  /\ description = RequestBodyRemoved
       => migration = "Remove request body from client calls"
  /\ description = RequiredBodyAdded
       => migration = "Add required request body to client calls"
  /\ HasPrefix(description, NewRequiredField)
       => migration = "Add the new required field to request payload"
  /\ HasPrefix(description, ResponseCode)
       => migration = "Update client to handle the removed response code"
  /\ HasPrefix(description, Parameter)
       => migration = "Update client to remove usage of the deleted parameter"

MigrationFollowsRuleTable ==
  called =>
    \A i \in 1..Len(diff.Breaking) :
      (/\ i <= Len(BreakingChangesOf(diff))
       /\ BreakingChangesOf(diff)[i].Type = ChangeModified)
      => RuleTable(BreakingChangesOf(diff)[i].Description, diff.Breaking[i].Migration)

\* a Diff with four of the five kinds of Change
MigrationFollowsRuleTableWitness ==
  /\ called
  /\ \E i, j, k, l \in 1..Len(diff.Breaking) :
       /\ diff.Breaking[i].Reason = RequiredBodyAdded
       /\ diff.Breaking[j].Reason = NewRequiredFieldDesc(FieldName)
       /\ diff.Breaking[k].Reason = ResponseCodeRemovedDesc(Code404)
       /\ diff.Breaking[l].Reason = ParameterRemovedDesc(ParamId)
       /\ diff.Breaking[l].Migration = "Update client to remove usage of the deleted parameter"

(* C13: a call of Compare never fails: it returns a Diff whose Changes and  *)
(* Breaking are sequences, and no slice expression of the migration lookup  *)
(* goes out of range, also for empty names.                                *)
CompareNeverPanics ==
  called =>
    /\ DOMAIN diff.Changes = 1..Len(diff.Changes)
    /\ DOMAIN diff.Breaking = 1..Len(diff.Breaking)
    /\ \A i \in 1..Len(diff.Breaking) : diff.Breaking[i].Migration # SliceOutOfRange

\* descriptions shorter than the longest slice, made of empty names
CompareNeverPanicsWitness ==
  /\ called
  /\ \E i, j \in 1..Len(diff.Breaking) :
       /\ diff.Breaking[i].Reason = ParameterRemovedDesc(Empty)
       /\ diff.Breaking[j].Reason = NewRequiredFieldDesc(Empty)
       /\ ~InRange(diff.Breaking[i].Reason, 21)

(* C18: in Changes the added changes come first, then the removed ones,     *)
(* then the modified ones.                                                 *)
Rank(type) == IF type = ChangeAdded THEN 1 ELSE IF type = ChangeRemoved THEN 2 ELSE 3

ChangesOrderedByType ==
  called =>
    \A i, j \in 1..Len(diff.Changes) :
      i < j => Rank(diff.Changes[i].Type) <= Rank(diff.Changes[j].Type)

\* a Diff with changes of the three types
ChangesOrderedByTypeWitness ==
  /\ called
  /\ ChangesOfType(diff, ChangeAdded) # <<>>
  /\ ChangesOfType(diff, ChangeRemoved) # <<>>
  /\ ChangesOfType(diff, ChangeModified) # <<>>

(* C19: Summary.ModifiedEndpoints is the number of path+method pairs that   *)
(* both documents have and for which there is at least one modified         *)
(* Change; an operation with several changes counts once.                  *)
\* both documents have an entry at path+method that is a map
PresentInBoth ==
  {e \in Endpoints : IsMap(EntryAt(oldSpec, e[1], e[2])) /\ IsMap(EntryAt(newSpec, e[1], e[2]))}

ModifiedAt(e) ==
  SelectSeq(ChangesAt(diff, e[1], e[2]), LAMBDA c : c.Type = ChangeModified)

ModifiedCountsOperations ==
  called =>
    /\ diff.Summary.ModifiedEndpoints
         = Cardinality({e \in PresentInBoth : ModifiedAt(e) # <<>>})
    /\ \A i \in 1..Len(diff.Changes) :
         diff.Changes[i].Type = ChangeModified
           => <<diff.Changes[i].Path, diff.Changes[i].Method>> \in PresentInBoth

\* one operation with three changes
ModifiedCountsOperationsWitness ==
  /\ called
  /\ diff.Summary.ModifiedEndpoints = 1
  /\ \E e \in PresentInBoth : Len(ModifiedAt(e)) >= 3

(* C20: for an operation that both documents have, there is exactly one     *)
(* Change "New required field: f" for each name f that is in the required   *)
(* list of the new operation and not in that of the old one.               *)
\* the names of the required list of an operation, whatever the order
RequiredNames(op) ==
  UNION {{l[i] : i \in 1..Len(l)} : l \in getRequiredFields(op)}

OneChangePerNewField ==
  called =>
    \A e \in Endpoints, f \in {FieldName, FieldEmail} :
      (/\ HasOperation(oldSpec, e[1], e[2])
       /\ HasOperation(newSpec, e[1], e[2])
       /\ f \in RequiredNames(EntryAt(newSpec, e[1], e[2]))
       /\ f \notin RequiredNames(EntryAt(oldSpec, e[1], e[2])))
      => Len(SelectSeq(ChangesAt(diff, e[1], e[2]),
                       LAMBDA c : c.Description = NewRequiredFieldDesc(f))) = 1

(* C15: the rendered migration guide has one step for each element of       *)
(* Diff.Breaking, numbered from 1 in the order of Breaking; when Breaking   *)
(* is empty it has no step and, once, the statement that no migration is    *)
(* required.                                                               *)
LinesWithPrefix(text, prefix) == SelectSeq(text, LAMBDA line : HasPrefix(line, prefix))

GuideHasStepPerBreaking ==
  "markdown" \in generated =>
    LET headings == LinesWithPrefix(markdown, <<"## ">>)
        endpointLines == LinesWithPrefix(markdown, EndpointPrefix)
        statements == SelectSeq(markdown, LAMBDA line : line = NoMigrationRequired)
    IN /\ Len(headings) = Len(diff.Breaking)
       /\ Len(endpointLines) = Len(diff.Breaking)
       /\ \A i \in 1..Len(diff.Breaking) :
            (i <= Len(headings) /\ i <= Len(endpointLines)) =>
              /\ HasPrefix(headings[i], <<"## ">> \o Itoa(i) \o <<". ">>)
              /\ endpointLines[i] = EndpointLine(diff.Breaking[i].Method, diff.Breaking[i].Path)
       /\ Len(statements) = (IF diff.Breaking = <<>> THEN 1 ELSE 0)

\* a guide with two steps for different endpointLines
GuideHasStepPerBreakingWitness ==
  /\ "markdown" \in generated
  /\ Len(diff.Breaking) >= 2
  /\ diff.Breaking[1].Path # diff.Breaking[2].Path
  /\ Len(LinesWithPrefix(markdown, <<"## ">>)) >= 2

(* C16: the changelog entry of a Diff has the descriptions of the added     *)
(* Changes in Added, of the removed ones in Removed, of the modified ones   *)
(* in Changed, and of every Change with IsBreaking true, whatever its       *)
(* type, in Breaking.                                                      *)
DescriptionsOf(changes) == [i \in 1..Len(changes) |-> changes[i].Description]

ChangelogBuckets ==
  "entry" \in generated =>
    /\ entry.Added = DescriptionsOf(ChangesOfType(diff, ChangeAdded))
    /\ entry.Removed = DescriptionsOf(ChangesOfType(diff, ChangeRemoved))
    /\ entry.Changed = DescriptionsOf(ChangesOfType(diff, ChangeModified))
    /\ entry.Breaking = DescriptionsOf(BreakingChangesOf(diff))
    /\ Len(entry.Breaking) = Len(BreakingChangesOf(diff))

(* C14, as claimed: CompareFiles returns an error and no Diff exactly when  *)
(* the old or the new file is unreadable or is not valid JSON; the error    *)
(* names the file and wraps the cause; the old file is loaded first, and    *)
(* the new one is not read when the old one fails; when both load, the      *)
(* result is Compare of the decoded documents.                             *)
Unreadable(file) == file.file = "missing"
InvalidJson(file) == file.file = "text" /\ file.text.j = "invalid"
\* a JSON text that is valid and is neither an object nor null
NoObject(file) == file.file = "text" /\ file.text.j \notin {"invalid", "object", "null"}
CauseOf(file) ==
  IF Unreadable(file) THEN PathError
  ELSE IF InvalidJson(file) THEN SyntaxError
  ELSE UnmarshalTypeError
\* the documents of the files that the tests of the result name
DocumentOf(file) ==
  IF file = Holds(JsonDocA) THEN GoDocA
  ELSE IF file = Holds(JsonDocB) THEN GoDocB
  ELSE IF file = Holds(JsonDocTwice) THEN Document(Map("version" :> Str(V1)), Map(<<>>))
  ELSE IF file = Holds(JNull) THEN NilMap
  ELSE Map(<<>>)

\* what the claim says of a call, given which files fail to load
FilesContract(badOld, badNew) ==
  /\ (result.err # NilError) <=> (badOld \/ badNew)
  /\ result.isNil <=> (result.err # NilError)
  /\ badOld =>
       /\ result.err = Errorf("failed to load old spec: ", CauseOf(files.old))
       /\ reads = <<"old">>
  /\ (~badOld /\ badNew) =>
       /\ result.err = Errorf("failed to load new spec: ", CauseOf(files.new))
       /\ reads = <<"old", "new">>
  /\ (~badOld /\ ~badNew) =>
       /\ reads = <<"old", "new">>
       /\ result.diff \in Compare(DocumentOf(files.old), DocumentOf(files.new))

Returned(g) == pc[g] = "idle" /\ frame[g].op = "BuildSpec"

BuildSpecSeesAdds ==
  \A g \in Goroutines :
    Returned(g) =>
      /\ frame[g].ret # NoSpec
      /\ \A ep \in frame[g].seen : ep.Path \in DOMAIN frame[g].ret.Paths
      /\ history.builtAfter[frame[g].ret.id] >= frame[g].after
      /\ (frame[g].quiet /\ frame[g].prev # 0) => frame[g].ret.id = frame[g].prev

\* a specification was built, an Add returned, and a BuildSpec call that
\* started after it returned a second specification
BuildSpecSeesAddsWitness ==
  \E g \in Goroutines :
    /\ Returned(g)
    /\ frame[g].ret.id = 2
    /\ frame[g].seen # {}
    /\ history.builtAfter[1] < frame[g].after

----------------------------------------------------------------------------
(* Changes of an operation that both documents have *)

\* the Changes at the pair e that have the description desc
DescribedAt(e, desc) ==
  SelectSeq(ChangesAt(diff, e[1], e[2]), LAMBDA c : c.Description = desc)
\* the BreakingChanges at the pair e that have the reason desc
BreakingAt(e, desc) ==
  SelectSeq(diff.Breaking,
            LAMBDA b : b.Path = e[1] /\ b.Method = e[2] /\ b.Reason = desc)
BreakingModification(c) == c.Type = ChangeModified /\ c.IsBreaking

(* C21: for an operation that both documents have, "Request body removed"   *)
(* is reported exactly when the old operation has a request body and the    *)
(* new one has none, "Required request body added" exactly when the old     *)
(* one has none and the new one has a body whose "required" is the boolean  *)
(* true; both are breaking modifications and at most one of them is         *)
(* reported.                                                               *)
\* the operation has a request body: a mapping that is not nil
HasRequestBody(doc, e) == Lookup(EntryAt(doc, e[1], e[2]), "requestBody").t = "map"
BodyIsRequired(doc, e) ==
  Lookup(Lookup(EntryAt(doc, e[1], e[2]), "requestBody"), "required") = Bool(TRUE)

RequestBodyChanges ==
  called =>
    \A e \in PresentInBoth :
      LET removed == DescribedAt(e, RequestBodyRemoved)
          added == DescribedAt(e, RequiredBodyAdded)
      IN /\ removed # <<>> <=> (HasRequestBody(oldSpec, e) /\ ~HasRequestBody(newSpec, e))
         /\ added # <<>> <=> (/\ ~HasRequestBody(oldSpec, e)
                              /\ HasRequestBody(newSpec, e)
                              /\ BodyIsRequired(newSpec, e))
         /\ Len(removed) + Len(added) <= 1
         /\ \A i \in 1..Len(removed) : BreakingModification(removed[i])
         /\ \A i \in 1..Len(added) : BreakingModification(added[i])

\* a required body was added
RequestBodyChangesWitness ==
  /\ called
  /\ \E e \in PresentInBoth :
       /\ ~HasRequestBody(oldSpec, e) /\ HasRequestBody(newSpec, e)
       /\ DescribedAt(e, RequiredBodyAdded) # <<>>

(* C22: for an operation that both documents have, there is exactly one     *)
(* breaking Change "Response code <code> removed" for each key of the old   *)
(* operation's responses that is no key of the new one's, each has its      *)
(* BreakingChange, which Summary.BreakingChanges counts, and there is no    *)
(* Change for a code that only the new operation has.                       *)
ResponseCodesOf(doc, e) ==
  LET responses == Lookup(EntryAt(doc, e[1], e[2]), "responses")
  IN IF IsMap(responses) THEN DOMAIN responses.v ELSE {}
AllCodes == {Code200, Code404, Empty}

ResponseCodeChanges ==
  called =>
    /\ diff.Summary.BreakingChanges = Len(diff.Breaking)
    /\ \A e \in PresentInBoth :
         LET gone == ResponseCodesOf(oldSpec, e) \ ResponseCodesOf(newSpec, e)
         IN /\ \A code \in AllCodes :
                 LET changes == DescribedAt(e, ResponseCodeRemovedDesc(code))
                 IN /\ Len(changes) = IF code \in gone THEN 1 ELSE 0
                    /\ Len(BreakingAt(e, ResponseCodeRemovedDesc(code))) = Len(changes)
                    /\ \A i \in 1..Len(changes) : BreakingModification(changes[i])
            /\ Len(SelectSeq(ChangesAt(diff, e[1], e[2]),
                             LAMBDA c : HasPrefix(c.Description, ResponseCode)))
                 = Cardinality(gone)

\* one code is gone and another is new
ResponseCodeChangesWitness ==
  /\ called
  /\ \E e \in PresentInBoth :
       /\ ResponseCodesOf(oldSpec, e) \ ResponseCodesOf(newSpec, e) # {}
       /\ ResponseCodesOf(newSpec, e) \ ResponseCodesOf(oldSpec, e) # {}
       /\ diff.Summary.BreakingChanges = 1

(* C23: for an operation that both documents have, there is exactly one     *)
(* breaking Change "Parameter '<name>' removed" for each parameter name     *)
(* that the old operation has and the new one has not, exactly one          *)
(* breaking Change "New required parameter: <name>" for each name that      *)
(* only the new operation has and whose parameter is marked required:true,  *)
(* and no Change for a new parameter that is not required. Of several       *)
(* parameters with one name, the last one of the array is the parameter of  *)
(* that name.                                                               *)
ParameterList(doc, e) ==
  LET parameters == Lookup(EntryAt(doc, e[1], e[2]), "parameters")
  IN IF parameters.t = "list" THEN parameters.v ELSE <<>>
IsNamed(x) == IsMap(x) /\ Lookup(x, "name").t = "string"
ParameterNames(doc, e) ==
  LET l == ParameterList(doc, e)
  IN {Lookup(l[i], "name").v : i \in {j \in 1..Len(l) : IsNamed(l[j])}}
MarkedRequired(doc, e, name) ==
  LET l == ParameterList(doc, e)
      named == {i \in 1..Len(l) : IsNamed(l[i]) /\ Lookup(l[i], "name").v = name}
      last == CHOOSE i \in named : \A j \in named : j <= i
  IN named # {} /\ Lookup(l[last], "required") = Bool(TRUE)
AllParams == {ParamId, ParamQ, Empty}

ParameterChanges ==
  called =>
    \A e \in PresentInBoth, name \in AllParams :
      LET inOld == name \in ParameterNames(oldSpec, e)
          inNew == name \in ParameterNames(newSpec, e)
          removed == DescribedAt(e, ParameterRemovedDesc(name))
          added == DescribedAt(e, NewRequiredParameterDesc(name))
      IN /\ Len(removed) = IF inOld /\ ~inNew THEN 1 ELSE 0
         /\ Len(added) = IF inNew /\ ~inOld /\ MarkedRequired(newSpec, e, name) THEN 1 ELSE 0
         /\ \A i \in 1..Len(removed) : BreakingModification(removed[i])
         /\ \A i \in 1..Len(added) : BreakingModification(added[i])

\* one parameter is gone, and a new one that is not required has no Change
ParameterChangesWitness ==
  /\ called
  /\ \E e \in PresentInBoth :
       /\ ParameterNames(oldSpec, e) \ ParameterNames(newSpec, e) # {}
       /\ \E name \in ParameterNames(newSpec, e) \ ParameterNames(oldSpec, e) :
            ~MarkedRequired(newSpec, e, name)
       /\ Len(ChangesAt(diff, e[1], e[2])) = 1

(* C25: an entry of "paths" whose value is no mapping (a path item or a     *)
(* method entry) is treated as absent: its pair is never compared, added    *)
(* or removed on its account, and an operation that faces it in the other   *)
(* document is reported added (when in new) or removed (when in old).       *)
NotMapping(doc, e) ==
  LET item == Lookup(Lookup(doc, "paths"), e[1])
      operation == EntryAt(doc, e[1], e[2])
  IN \/ item # Nil /\ ~IsMap(item)
     \/ operation # Nil /\ ~IsMap(operation)
TypedAt(e, type) ==
  SelectSeq(ChangesAt(diff, e[1], e[2]), LAMBDA c : c.Type = type)

NonMappingIsAbsent ==
  called =>
    \A e \in Endpoints :
      /\ NotMapping(oldSpec, e) \/ NotMapping(newSpec, e) => TypedAt(e, ChangeModified) = <<>>
      /\ NotMapping(oldSpec, e) => TypedAt(e, ChangeRemoved) = <<>>
      /\ NotMapping(newSpec, e) => TypedAt(e, ChangeAdded) = <<>>
      /\ NotMapping(oldSpec, e) /\ HasOperation(newSpec, e[1], e[2])
           => Len(TypedAt(e, ChangeAdded)) = 1
      /\ NotMapping(newSpec, e) /\ HasOperation(oldSpec, e[1], e[2])
           => Len(TypedAt(e, ChangeRemoved)) = 1

\* an operation of new faces a method entry that is a string, and an
\* operation of old faces one that is a number
NonMappingIsAbsentWitness ==
  /\ called
  /\ \E e \in Endpoints : /\ EntryAt(oldSpec, e[1], e[2]) = Text
                          /\ HasOperation(newSpec, e[1], e[2])
                          /\ Len(TypedAt(e, ChangeAdded)) = 1
  /\ \E e \in Endpoints : /\ EntryAt(newSpec, e[1], e[2]) = Num
                          /\ HasOperation(oldSpec, e[1], e[2])
                          /\ Len(TypedAt(e, ChangeRemoved)) = 1

(* C27: in the Diff that Compare returns each removed or modified Change    *)
(* is breaking and each added Change is not; the number of Changes is       *)
(* AddedEndpoints + BreakingChanges, and BreakingChanges is at least        *)
(* RemovedEndpoints + ModifiedEndpoints.                                    *)
BreakingFollowsType ==
  called =>
    /\ \A i \in 1..Len(diff.Changes) :
         LET c == diff.Changes[i]
         IN /\ c.Type \in {ChangeRemoved, ChangeModified} => c.IsBreaking
            /\ c.Type = ChangeAdded => ~c.IsBreaking
    /\ Len(diff.Changes) = diff.Summary.AddedEndpoints + diff.Summary.BreakingChanges
    /\ diff.Summary.BreakingChanges
         >= diff.Summary.RemovedEndpoints + diff.Summary.ModifiedEndpoints

\* all three kinds, and an operation with more than one change
BreakingFollowsTypeWitness ==
  /\ called
  /\ diff.Summary.AddedEndpoints > 0
  /\ diff.Summary.RemovedEndpoints > 0
  /\ diff.Summary.ModifiedEndpoints > 0
  /\ diff.Summary.BreakingChanges
       > diff.Summary.RemovedEndpoints + diff.Summary.ModifiedEndpoints

(* C28: a path+method pair is the subject of changes of at most one kind:   *)
(* a pair reported added is not reported removed or modified, and a pair    *)
(* reported removed is not reported modified.                               *)
OneKindPerPair ==
  called =>
    \A e \in Endpoints :
      Cardinality({c.Type : c \in {ChangesAt(diff, e[1], e[2])[i] :
                                     i \in 1..Len(ChangesAt(diff, e[1], e[2]))}}) <= 1

(* C29: exchanging the arguments exchanges additions and removals: the      *)
(* AddedEndpoints of Compare(A, B) is the RemovedEndpoints of Compare(B, A) *)
(* and the pairs the one reports added are the pairs the other reports      *)
(* removed.                                                                 *)
PairsOfType(d, type) ==
  {<<d.Changes[i].Path, d.Changes[i].Method>> :
     i \in {j \in 1..Len(d.Changes) : d.Changes[j].Type = type}}

SwapExchangesAddedAndRemoved ==
  called /\ reverse.called =>
    /\ diff.Summary.AddedEndpoints = reverse.diff.Summary.RemovedEndpoints
    /\ diff.Summary.RemovedEndpoints = reverse.diff.Summary.AddedEndpoints
    /\ PairsOfType(diff, ChangeAdded) = PairsOfType(reverse.diff, ChangeRemoved)
    /\ PairsOfType(diff, ChangeRemoved) = PairsOfType(reverse.diff, ChangeAdded)

\* two documents that differ in what they add and remove, compared both ways
SwapExchangesAddedAndRemovedWitness ==
  /\ called /\ reverse.called
  /\ PairsOfType(diff, ChangeAdded) # {}
  /\ PairsOfType(diff, ChangeRemoved) # {}
  /\ PairsOfType(diff, ChangeAdded) \cap PairsOfType(diff, ChangeRemoved) = {}
  /\ reverse.diff.Summary.RemovedEndpoints = 1

(* C24: each migration step is built from the Reason of its BreakingChange  *)
(* by the first rule that matches: "removed" gives the endpoint-removal     *)
(* template, else "required" the required-field template, else "parameter"  *)
(* the parameter-update template, else the generic template; the step       *)
(* carries the Path, the Method and the Migration text of its               *)
(* BreakingChange.                                                          *)
RuleOf(reason) ==
  CASE Contains(reason, Removed) -> "endpoint-removal"
    [] ~Contains(reason, Removed) /\ Contains(reason, RequiredWord) -> "required-field"
    [] /\ ~Contains(reason, Removed) /\ ~Contains(reason, RequiredWord)
       /\ Contains(reason, ParameterWord) -> "parameter-update"
    [] OTHER -> "generic"
TitleOf(template) ==
  CASE template = "endpoint-removal" -> "Handle removed endpoint: "
    [] template = "required-field" -> "Add required field for: "
    [] template = "parameter-update" -> "Update parameters for: "
    [] template = "generic" -> "Update: "
AfterOf(template) ==
  CASE template = "endpoint-removal" -> <<"// Remove or replace with alternative endpoint">>
    [] template = "required-field" -> <<"// Add the new required field to your request">>
    [] template = "parameter-update" -> <<"// Updated parameter usage">>
    [] template = "generic" -> <<>>

StepFollowsFirstRule ==
  "guide" \in generated =>
    /\ Len(guide.Steps) = Len(diff.Breaking)
    /\ \A i \in 1..Len(diff.Breaking) :
         LET breaking == diff.Breaking[i]
             step == guide.Steps[i]
             template == RuleOf(breaking.Reason)
         IN /\ step.Title = <<TitleOf(template)>> \o breaking.Method \o <<" ">> \o breaking.Path
            /\ step.After = AfterOf(template)
            /\ step.Before = <<>> <=> template = "generic"
            /\ step.Endpoint = breaking.Path
            /\ step.Method = breaking.Method
            /\ step.Description = breaking.Migration

\* a Reason with "required" and "removed" next to one with "required" and
\* "parameter"
StepFollowsFirstRuleWitness ==
  /\ "guide" \in generated
  /\ Len(diff.Breaking) = 2
  /\ diff.Breaking[1].Reason = RequiredRemoved
  /\ diff.Breaking[2].Reason = NewRequiredParameterDesc(ParamId)
  /\ RuleOf(diff.Breaking[1].Reason) = "endpoint-removal"
  /\ guide.Steps[2].Title[1] = "Add required field for: "

(* C30: in the migration guide of a Diff that Compare returned no step      *)
(* uses the parameter-update template: each Reason that mentions a          *)
(* parameter also contains "removed" or "required"; a removed parameter, a  *)
(* removed response code and a removed request body get the                 *)
(* endpoint-removal template and "Required request body added" gets the     *)
(* generic template.                                                        *)
MentionsParameter(reason) == Contains(reason, ParameterWord) \/ Contains(reason, Parameter)

NoParameterTemplateAfterCompare ==
  called /\ "guide" \in generated =>
    \A i \in 1..Len(guide.Steps) :
      LET reason == diff.Breaking[i].Reason
          title == guide.Steps[i].Title[1]
      IN /\ title # "Update parameters for: "
         /\ MentionsParameter(reason)
              => Contains(reason, Removed) \/ Contains(reason, RequiredWord)
         /\ (\/ HasPrefix(reason, Parameter \o <<" ">>)
             \/ HasPrefix(reason, ResponseCode \o <<" ">>)
             \/ reason = RequestBodyRemoved)
              => title = "Handle removed endpoint: "
         /\ reason = RequiredBodyAdded => title = "Update: "

\* an added body, a removed response code and a removed parameter at once
NoParameterTemplateAfterCompareWitness ==
  /\ called /\ "guide" \in generated
  /\ \E i, j, k \in 1..Len(diff.Breaking) :
       /\ diff.Breaking[i].Reason = RequiredBodyAdded
       /\ guide.Steps[i].Title[1] = "Update: "
       /\ HasPrefix(diff.Breaking[j].Reason, ResponseCode)
       /\ HasPrefix(diff.Breaking[k].Reason, Parameter)

(* C26: Compare leaves both documents as they were, and generating a        *)
(* changelog entry or a migration guide, or rendering the guide, leaves     *)
(* the Diff as it was.                                                      *)
Reported == <<guide, markdown, entry, generated>>

====
